---- MODULE Spec2Model ----
(***************************************************************************)
(* Model of the Tide content script (src/content.ts): the analysis pass    *)
(* analyzePage (script reconciliation and classification, dependency       *)
(* detection, the long-task observer, concurrent eval checks, security     *)
(* scan, aggregation) and the version advisory isVersionVulnerable; of its *)
(* messaging with the extension (the port, the load-time send, the         *)
(* onMessage listener); of the background service worker                   *)
(* (src/background.ts): the snapshot cache, chrome.storage.local and the   *)
(* per-domain history; and of the popup's summaries (src/popup.tsx).       *)
(*                                                                         *)
(* Version strings, which the code takes apart, are sequences of           *)
(* one-character strings.  Host names and dependency names are strings,    *)
(* scanned where the code scans them.  URLs are names with the attributes  *)
(* the browser's URL parser gives them.                                    *)
(***************************************************************************)
EXTENDS Integers, Sequences, FiniteSets, TLC

(***************************************************************************)
(* Bounds of the model.                                                    *)
(***************************************************************************)
\* most timing entries, script tags and inline scripts of a document
MaxEntries == 2
MaxTags == 1
MaxInline == 1
\* largest transferred, decoded or encoded size of a timing entry
MaxSize == 1
\* longest text of an inline script
MaxText == 1
\* largest size of a timing entry where duplicates are reconciled
MaxDedupSize == 2
\* longest free-form version string drawn as an input
MaxVerLen == 3
\* largest component, and most components, of a dotted version drawn as an input
MaxComp == 5
MaxParts == 4
\* most globals of a window given a value other than a plain object
MaxGlobals == 2
\* most timing entries of a document whose globals are probed
MaxDetectEntries == 1
\* most timing entries and script tags of a document whose hosts are classified
MaxHostEntries == 2
MaxHostTags == 1
\* most timing entries and script tags of a document with measured sizes
MaxSizedEntries == 2
MaxSizedTags == 1
\* most long tasks the observer of a pass counts
MaxLongTasks == 2
\* most timing entries and script tags of a document with repeated script tags
MaxTagEntries == 2
MaxRepeatedTags == 2
\* most messages the content script's listener is given
MaxRequests == 2
\* most PAGE_ANALYSIS and most GET_ANALYSIS messages the background is given
MaxMessages == 2
MaxAsks == 1
\* most timing entries of a page whose snapshot the popup exports
MaxPopupEntries == 1
\* the days the background's clock advances at a time, and its last day
ClockStep == 15
MaxClock == 45

(***************************************************************************)
(* Generic helpers.                                                        *)
(***************************************************************************)
Range(s) == {s[i] : i \in 1..Len(s)}

SeqsUpTo(S, n) == UNION {[1..k -> S] : k \in 0..n}

Max(a, b) == IF a > b THEN a ELSE b

(***************************************************************************)
(* JavaScript string primitives used by the version advisory, on strings   *)
(* written as sequences of characters.                                     *)
(***************************************************************************)
Digits == {"0", "1", "2", "3", "4", "5", "6", "7", "8", "9"}

DigitVal == ("0" :> 0) @@ ("1" :> 1) @@ ("2" :> 2) @@ ("3" :> 3) @@ ("4" :> 4) @@
            ("5" :> 5) @@ ("6" :> 6) @@ ("7" :> 7) @@ ("8" :> 8) @@ ("9" :> 9)

DigitChar == <<"0", "1", "2", "3", "4", "5", "6", "7", "8", "9">>

\* the characters a version string of the model is made of
VerChars == {"0", "1", "3", ".", "-", " ", "r"}

\* decimal rendering of a natural number (used to write version literals)
RECURSIVE Dec(_)
Dec(n) == IF n < 10 THEN <<DigitChar[n + 1]>>
          ELSE Dec(n \div 10) \o <<DigitChar[(n % 10) + 1]>>

\* the literal "a.b.c"
V3(a, b, c) == Dec(a) \o <<".">> \o Dec(b) \o <<".">> \o Dec(c)

\* index of the first occurrence of ch in s, 0 when there is none
RECURSIVE IndexFrom(_, _, _)
IndexFrom(s, ch, i) ==
    IF i > Len(s) THEN 0
    ELSE IF s[i] = ch THEN i
    ELSE IndexFrom(s, ch, i + 1)

IndexOf(s, ch) == IndexFrom(s, ch, 1)

\* s.split(ch)
RECURSIVE Split(_, _)
Split(s, ch) ==
    LET i == IndexOf(s, ch) IN
    IF i = 0 THEN <<s>>
    ELSE <<SubSeq(s, 1, i - 1)>> \o Split(SubSeq(s, i + 1, Len(s)), ch)

\* s.trim(), the only white space of the model being the blank
RECURSIVE TrimStart(_)
TrimStart(s) == IF Len(s) > 0 /\ s[1] = " " THEN TrimStart(Tail(s)) ELSE s

RECURSIVE TrimEnd(_)
TrimEnd(s) ==
    IF Len(s) > 0 /\ s[Len(s)] = " " THEN TrimEnd(SubSeq(s, 1, Len(s) - 1)) ELSE s

Trim(s) == TrimEnd(TrimStart(s))

\* s.startsWith(p)
StartsWith(s, p) == Len(p) <= Len(s) /\ SubSeq(s, 1, Len(p)) = p

\* value of a run of decimal digits
RECURSIVE DecValue(_)
DecValue(s) ==
    IF Len(s) = 0 THEN 0
    ELSE 10 * DecValue(SubSeq(s, 1, Len(s) - 1)) + DigitVal[s[Len(s)]]

\* Number(s) || 0 : white space around the text is ignored, the empty text is
\* 0, a run of digits is its value, and anything else is NaN, which || turns to 0
NumberOr0(s) ==
    LET t == Trim(s) IN
    IF Len(t) > 0 /\ Range(t) \subseteq Digits THEN DecValue(t) ELSE 0

(***************************************************************************)
(* Version advisory: the rule table, compareVersions, isVersionVulnerable. *)
(***************************************************************************)
\* the absent version (null); it is no string of characters of the model
Null == <<"null">>

\* dependency names: the names of the rule table, a name without a rule, and
\* jQuery spelled in another case
DepNames == {"jQuery", "Lodash", "Moment.js", "Angular", "React", "D3", "JQUERY"}

\* String.prototype.toLowerCase on the names of the model
ToLowerCase(n) ==
    CASE n = "jQuery"    -> "jquery"
      [] n = "JQUERY"    -> "jquery"
      [] n = "Lodash"    -> "lodash"
      [] n = "Moment.js" -> "moment.js"
      [] n = "Angular"   -> "angular"
      [] n = "React"     -> "react"
      [] n = "D3"        -> "d3"
      [] OTHER           -> n

vulnerableVersions == <<
    [library |-> "jQuery", severity |-> "high",
     versions |-> << V3(1,0,0), V3(1,1,0), V3(1,2,0), V3(1,3,0), V3(1,4,0),
                     V3(1,5,0), V3(1,6,0), V3(1,7,0), V3(1,8,0), V3(1,9,0),
                     V3(1,10,0), V3(1,11,0), V3(1,12,0), V3(2,0,0), V3(2,1,0),
                     V3(2,2,0), V3(3,0,0), V3(3,1,0), V3(3,2,0), V3(3,3,0),
                     V3(3,4,0) >>],
    [library |-> "Lodash", severity |-> "high",
     versions |-> << V3(4,17,0), V3(4,17,1), V3(4,17,2), V3(4,17,3), V3(4,17,4),
                     V3(4,17,5), V3(4,17,6), V3(4,17,7), V3(4,17,8), V3(4,17,9),
                     V3(4,17,10), V3(4,17,11), V3(4,17,12), V3(4,17,13),
                     V3(4,17,14), V3(4,17,15), V3(4,17,16), V3(4,17,17),
                     V3(4,17,18), V3(4,17,19) >>],
    [library |-> "Moment.js", severity |-> "medium",
     versions |-> << V3(2,0,0), V3(2,1,0), V3(2,2,0), V3(2,3,0), V3(2,4,0),
                     V3(2,5,0), V3(2,6,0), V3(2,7,0), V3(2,8,0), V3(2,9,0),
                     V3(2,10,0), V3(2,11,0), V3(2,12,0), V3(2,13,0), V3(2,14,0),
                     V3(2,15,0), V3(2,16,0), V3(2,17,0), V3(2,18,0), V3(2,19,0) >>],
    [library |-> "Angular", severity |-> "high",
     versions |-> << V3(1,0,0), V3(1,1,0), V3(1,2,0), V3(1,3,0), V3(1,4,0),
                     V3(1,5,0), V3(1,6,0) >>],
    [library |-> "React", severity |-> "medium",
     versions |-> << V3(0,0,0), V3(0,1,0), V3(0,2,0), V3(0,3,0), V3(0,4,0),
                     V3(0,5,0), V3(0,6,0), V3(0,7,0), V3(0,8,0), V3(0,9,0),
                     V3(0,10,0), V3(0,11,0), V3(0,12,0), V3(0,13,0), V3(0,14,0),
                     V3(15,0,0), V3(15,1,0), V3(15,2,0), V3(15,3,0), V3(15,4,0),
                     V3(15,5,0), V3(15,6,0) >>]
  >>

\* v.split('.').map(Number), each part read as Number(part) || 0
VersionParts(v) == LET parts == Split(v, ".") IN
                   [i \in 1..Len(parts) |-> NumberOr0(parts[i])]

\* the loop of compareVersions from component i on
RECURSIVE CompareFrom(_, _, _, _)
CompareFrom(v1parts, v2parts, i, maxLen) ==
    IF i > maxLen THEN 0
    ELSE LET v1part == IF i <= Len(v1parts) THEN v1parts[i] ELSE 0
             v2part == IF i <= Len(v2parts) THEN v2parts[i] ELSE 0
         IN  IF v1part > v2part THEN 1
             ELSE IF v1part < v2part THEN -1
             ELSE CompareFrom(v1parts, v2parts, i + 1, maxLen)

\* the comparison gone wrong: the loop stops after the first component
compareFirstComponent(version1, version2) ==
    CompareFrom(VersionParts(version1), VersionParts(version2), 1, 1)

compareVersions(version1, version2) ==
    LET v1parts == VersionParts(version1)
        v2parts == VersionParts(version2)
    IN  CompareFrom(v1parts, v2parts, 1, Max(Len(v1parts), Len(v2parts)))

\* the test of a listed version gone wrong: the comparison is strict
VersionHitsBelow(libVersion, vulnVersion) ==
    \/ libVersion = vulnVersion
    \/ StartsWith(libVersion, vulnVersion \o <<".">>)
    \/ compareVersions(libVersion, vulnVersion) < 0

\* the test of one listed version inside the loops of isVersionVulnerable
VersionHits(libVersion, vulnVersion) ==
    \/ libVersion = vulnVersion
    \/ StartsWith(libVersion, vulnVersion \o <<".">>)
    \/ compareVersions(libVersion, vulnVersion) <= 0

\* the inner loop: does some listed version, from the j-th on, hit
RECURSIVE AnyVersionHits(_, _, _)
AnyVersionHits(libVersion, versions, j) ==
    IF j > Len(versions) THEN FALSE
    ELSE IF VersionHits(libVersion, versions[j]) THEN TRUE
    ELSE AnyVersionHits(libVersion, versions, j + 1)

\* the outer loop over the rules of the library, from the i-th rule on:
\* the index of the first rule that hits, 0 for null
RECURSIVE FirstVuln(_, _, _, _)
FirstVuln(name, libVersion, table, i) ==
    IF i > Len(table) THEN 0
    ELSE IF /\ ToLowerCase(table[i].library) = ToLowerCase(name)
            /\ AnyVersionHits(libVersion, table[i].versions, 1)
         THEN i
    ELSE FirstVuln(name, libVersion, table, i + 1)

\* isVersionVulnerable: the index in the table of the rule returned, 0 for null
isVersionVulnerable(library, table) ==
    IF library.version = Null \/ library.version = <<>> THEN 0
    ELSE FirstVuln(library.name, Trim(Split(library.version, "-")[1]), table, 1)

(***************************************************************************)
(* The document under analysis.  Its location is https://example.com/.     *)
(***************************************************************************)
LocationHostname == "example.com"
LocationOrigin == "https://example.com"

\* the sentinel source of an inline script
InlineSrc == "inline"

AppJs == "https://example.com/app.js"
LibJs == "https://cdn.jsdelivr.net/lib.js"
PortApi == "http://example.com:8080/api"

\* resource names: a same-origin script, a CDN script, and a resource of the
\* document's host on another port whose name does not look like a script.
\* All of them parse as URLs, and none is a data: or blob: URL.
Urls == {AppJs, LibJs, PortApi}

\* further resource names, for the classification: a third-party host on no
\* list, a CDN host that is not on the trusted list, a host that merely
\* contains a trusted entry, and a name the URL parser rejects
EvilJs == "https://evil.example.org/x.js"
FastlyJs == "https://x.fastly.net/y.js"
LookalikeJs == "https://mycdnjs.community/z.js"
BadUrl == "http://[bad"

\* two pages of the document's host, as window.location.href gives them
PageA == "https://example.com/a"
PageB == "https://example.com/b"

HostUrls == {AppJs, LibJs, EvilJs, FastlyJs, LookalikeJs, BadUrl}

\* does new URL(u, window.location.href) return (it throws a TypeError otherwise)
Parses(u) == u # BadUrl

\* new URL(u).hostname of a name that parses
Hostname(u) ==
    CASE u = AppJs   -> "example.com"
      [] u = LibJs   -> "cdn.jsdelivr.net"
      [] u = PortApi -> "example.com"
      [] u = EvilJs  -> "evil.example.org"
      [] u = FastlyJs -> "x.fastly.net"
      [] u = LookalikeJs -> "mycdnjs.community"
      [] u = InlineSrc -> LocationHostname
      [] u = PageA -> "example.com"
      [] u = PageB -> "example.com"

\* new URL(u, window.location.href).origin of a name that parses; the
\* relative reference "inline" resolves against the document
Origin(u) ==
    CASE u = AppJs     -> "https://example.com"
      [] u = LibJs     -> "https://cdn.jsdelivr.net"
      [] u = PortApi   -> "http://example.com:8080"
      [] u = EvilJs    -> "https://evil.example.org"
      [] u = FastlyJs  -> "https://x.fastly.net"
      [] u = LookalikeJs -> "https://mycdnjs.community"
      [] u = InlineSrc -> LocationOrigin

\* name.endsWith(".js") || name.includes(".js?") || name.includes(".mjs") ||
\* name.includes("javascript")
NameLooksLikeScript(u) == u \in {AppJs, LibJs, EvilJs, FastlyJs, LookalikeJs}

\* src.startsWith('data:') || src.startsWith('blob:')
IsDataOrBlob(u) == FALSE

\* host.includes(fragment): the scan for the first position where the
\* fragment occurs
RECURSIVE IncludesFrom(_, _, _)
IncludesFrom(host, fragment, i) ==
    IF i + Len(fragment) - 1 > Len(host) THEN FALSE
    ELSE IF SubSeq(host, i, i + Len(fragment) - 1) = fragment THEN TRUE
    ELSE IncludesFrom(host, fragment, i + 1)

Includes(host, fragment) == IncludesFrom(host, fragment, 1)

cdnHosts == <<"cdn.", "cloudflare.com", "unpkg.com", "jsdelivr.net",
              "googleapis.com", "gstatic.com", "akamaihd.net", "fastly.net",
              "bootstrapcdn.com", "cdnjs.com">>

trustedDomains == <<"googleapis.com", "gstatic.com", "cloudflare.com",
                    "jsdelivr.net", "unpkg.com", "cdnjs.com",
                    "cdnjs.cloudflare.com", "bootstrapcdn.com",
                    "cdn.jsdelivr.net">>

\* the allow-list test gone wrong: the host must end with a trusted entry
isUntrustedDomainBySuffix(host, firstParty) ==
    IF firstParty THEN FALSE
    ELSE IF host = "" THEN TRUE
    ELSE ~(\E k \in 1..Len(trustedDomains) :
               /\ Len(trustedDomains[k]) <= Len(host)
               /\ SubSeq(host, Len(host) - Len(trustedDomains[k]) + 1, Len(host))
                      = trustedDomains[k])

isUntrustedDomain(host, firstParty) ==
    IF firstParty THEN FALSE
    ELSE IF host = "" THEN TRUE
    ELSE ~(\E k \in 1..Len(trustedDomains) : Includes(host, trustedDomains[k]))

(***************************************************************************)
(* collectScriptInfo.                                                      *)
(***************************************************************************)
\* the filter of the first loop over the timing entries
isScript(entry) ==
    entry.initiatorType = "script" \/ NameLooksLikeScript(entry.name)

\* position of the entry kept for a name in scriptMap, 0 when there is none
RECURSIVE MapIndexFrom(_, _, _)
MapIndexFrom(map, name, i) ==
    IF i > Len(map) THEN 0
    ELSE IF map[i].name = name THEN i
    ELSE MapIndexFrom(map, name, i + 1)

MapIndex(map, name) == MapIndexFrom(map, name, 1)

\* the replacement test gone wrong: only the transferred size is compared
ReplacesOnTransferOnly(entry, existing) ==
    entry.transferSize > existing.transferSize

\* does the entry replace the one already kept for its name
Replaces(entry, existing) ==
    \/ entry.transferSize > existing.transferSize
    \/ entry.decodedBodySize > existing.decodedBodySize

\* scriptMap after the loop over entries i.. ; a Map keeps its keys in the
\* order of their first insertion, so the map is the sequence of its values
RECURSIVE BuildScriptMap(_, _, _)
BuildScriptMap(entries, i, map) ==
    IF i > Len(entries) THEN map
    ELSE LET entry == entries[i]
             k == MapIndex(map, entry.name)
         IN  IF ~isScript(entry) THEN BuildScriptMap(entries, i + 1, map)
             ELSE IF k = 0
                  THEN BuildScriptMap(entries, i + 1, Append(map, entry))
             ELSE IF Replaces(entry, map[k])
                  THEN BuildScriptMap(entries, i + 1, [map EXCEPT ![k] = entry])
             ELSE BuildScriptMap(entries, i + 1, map)

\* the size resolution gone wrong: the transferred size is preferred
UncompressedSizeTransferFirst(e) ==
    IF e.transferSize > 0 THEN e.transferSize
    ELSE IF e.encodedBodySize > 0 THEN e.encodedBodySize
    ELSE e.decodedBodySize

\* the size resolution both passes apply to a timing entry
UncompressedSize(e) ==
    IF e.decodedBodySize > 0 THEN e.decodedBodySize
    ELSE IF e.encodedBodySize > 0 THEN e.encodedBodySize
    ELSE e.transferSize

CompressedSize(e) ==
    IF e.transferSize > 0 THEN e.transferSize
    ELSE IF e.encodedBodySize > 0 THEN e.encodedBodySize
    ELSE e.decodedBodySize

ResolvedSize(e) ==
    IF UncompressedSize(e) > 0 THEN UncompressedSize(e) ELSE CompressedSize(e)

ResolvedGzippedSize(e) ==
    IF CompressedSize(e) > 0 THEN CompressedSize(e) ELSE ResolvedSize(e)

\* the size guard gone wrong: a resource of size 0 is recorded
RecordableFromZero(size) == size >= 0

\* may a resource of this resolved size enter the inventory
Recordable(size) == size > 0

\* the fallback gone wrong: when the URL parser throws, the raw source is
\* taken as the host
ExternalScriptRawHost(src, e) ==
    LET host == IF Parses(src) THEN Hostname(src) ELSE src
        firstParty == Parses(src) /\ host = LocationHostname
    IN  [src |-> src,
         size |-> ResolvedSize(e),
         gzippedSize |-> ResolvedGzippedSize(e),
         firstParty |-> firstParty,
         host |-> host,
         isCDN |-> /\ Parses(src)
                   /\ \E k \in 1..Len(cdnHosts) : Includes(host, cdnHosts[k]),
         hasEval |-> FALSE,
         untrustedDomain |-> isUntrustedDomain(host, firstParty)]

\* the ScriptInfo both passes build for source src from timing entry e; when
\* the URL parser throws, the catch leaves host, firstParty and isCDN as they
\* were initialised.  The
\* timing and loading-mode fields and potentiallyUnused, which nothing in the
\* pass reads back, are left out.
ExternalScript(src, e) ==
    LET host == IF Parses(src) THEN Hostname(src) ELSE ""
        firstParty == Parses(src) /\ host = LocationHostname
    IN  [src |-> src,
         size |-> ResolvedSize(e),
         gzippedSize |-> ResolvedGzippedSize(e),
         firstParty |-> firstParty,
         host |-> host,
         isCDN |-> /\ Parses(src)
                   /\ \E k \in 1..Len(cdnHosts) : Includes(host, cdnHosts[k]),
         hasEval |-> FALSE,
         untrustedDomain |-> isUntrustedDomain(host, firstParty)]

\* the ScriptInfo of an inline script whose text matches an eval pattern
InlineScript(text) ==
    [src |-> InlineSrc,
     size |-> text.length,
     gzippedSize |-> text.length,
     firstParty |-> TRUE,
     host |-> LocationHostname,
     isCDN |-> FALSE,
     hasEval |-> TRUE,
     untrustedDomain |-> FALSE]

\* the loop over the inline scripts, from the i-th on
RECURSIVE InlinePass(_, _)
InlinePass(inl, i) ==
    IF i > Len(inl) THEN <<>>
    ELSE IF inl[i].length > 0 /\ inl[i].evalHit
         THEN <<InlineScript(inl[i])>> \o InlinePass(inl, i + 1)
    ELSE InlinePass(inl, i + 1)

\* the loop over scriptMap.values(), from the i-th on
RECURSIVE FirstPass(_, _)
FirstPass(map, i) ==
    IF i > Len(map) THEN <<>>
    ELSE IF Recordable(ResolvedSize(map[i]))
         THEN <<ExternalScript(map[i].name, map[i])>> \o FirstPass(map, i + 1)
    ELSE FirstPass(map, i + 1)

\* perfEntries.find(e => e.name === src): its position, 0 when not found
RECURSIVE FindEntryFrom(_, _, _)
FindEntryFrom(entries, src, i) ==
    IF i > Len(entries) THEN 0
    ELSE IF entries[i].name = src THEN i
    ELSE FindEntryFrom(entries, src, i + 1)

\* the callback of that find reads new URL(src, window.location.href).href
\* for every entry it visits whose name is not src, outside any try: with a
\* src that does not parse the find throws unless it visits no such entry
FindThrows(entries, src) ==
    ~Parses(src) /\ Len(entries) > 0 /\ entries[1].name # src

\* does the loop over the script tags throw, from the i-th tag on
RECURSIVE SecondPassThrows(_, _, _, _)
SecondPassThrows(tags, entries, map, i) ==
    IF i > Len(tags) THEN FALSE
    ELSE IF MapIndex(map, tags[i]) = 0 /\ FindThrows(entries, tags[i]) THEN TRUE
    ELSE SecondPassThrows(tags, entries, map, i + 1)

\* the loop over the script tags, from the i-th on
RECURSIVE SecondPass(_, _, _, _)
SecondPass(tags, entries, map, i) ==
    IF i > Len(tags) THEN <<>>
    ELSE LET src == tags[i]
             k == FindEntryFrom(entries, src, 1)
         IN  IF /\ MapIndex(map, src) = 0
                /\ k > 0
                /\ Recordable(ResolvedSize(entries[k]))
             THEN <<ExternalScript(src, entries[k])>>
                      \o SecondPass(tags, entries, map, i + 1)
             ELSE SecondPass(tags, entries, map, i + 1)

collectScriptInfo(entries, tags, inl) ==
    LET map == BuildScriptMap(entries, 1, <<>>)
    IN  InlinePass(inl, 1) \o FirstPass(map, 1) \o SecondPass(tags, entries, map, 1)

\* does collectScriptInfo throw instead of returning
collectScriptInfoThrows(entries, tags) ==
    SecondPassThrows(tags, entries, BuildScriptMap(entries, 1, <<>>), 1)

(***************************************************************************)
(* checkScriptForEval / checkScriptsForEval: one check per script, each a  *)
(* little process.  Stages: "none" (the callback had nothing to await),    *)
(* "fetch" (fetch in flight), "text" (response.text() in flight), "ret"    *)
(* (checkScriptForEval has resolved with `value`, the assignment to        *)
(* script.hasEval is still queued), "done".                                *)
(***************************************************************************)
\* the guard of checkScriptsForEval's callback: is checkScriptForEval called
NeedsCheck(src) == src # "" /\ ~IsDataOrBlob(src)

\* the origin test gone wrong: host names are compared
IsSameHostname(src) == Hostname(src) = LocationHostname

\* scriptUrl.origin === window.location.origin
IsSameOrigin(src) == Origin(src) = LocationOrigin

\* the check of one script up to its first suspension point; a source the
\* URL parser rejects lands in the catch, which returns false
StartCheck(script) ==
    IF ~NeedsCheck(script.src) THEN [stage |-> "none", value |-> FALSE]
    ELSE IF ~Parses(script.src) \/ ~IsSameOrigin(script.src)
         THEN [stage |-> "ret", value |-> FALSE]
    ELSE [stage |-> "fetch", value |-> FALSE]

\* the sources fetch() is called with when the checks are started
FetchesIssued(scr) ==
    {scr[i].src : i \in {j \in 1..Len(scr) : StartCheck(scr[j]).stage = "fetch"}}

\* the join gone wrong: it resolves as soon as one check has settled
AnySettled(chk) ==
    chk = <<>> \/ \E i \in 1..Len(chk) : chk[i].stage \in {"none", "done"}

\* Promise.allSettled(checkPromises) has resolved
AllSettled(chk) == \A i \in 1..Len(chk) : chk[i].stage \in {"none", "done"}

(***************************************************************************)
(* detectFrameworks / detectLibraries.  The window is a function from the  *)
(* names it defines, among those the detectors probe, to what reading that *)
(* name gives: an exception (an accessor property whose getter throws) or  *)
(* an object; reading any other name gives nothing (undefined, or another  *)
(* falsy value).  Of an object the model keeps the                         *)
(* one property the version extractor reads (fn.jquery, VERSION, version,  *)
(* version.full, REVISION, buildId): absent, a string, or an accessor that *)
(* throws.  The two document.querySelector probes of detectFrameworks are  *)
(* names of the same function; they give nothing or an element.            *)
(***************************************************************************)
LibraryGlobals == {"jQuery", "$", "_", "lodash", "d3", "THREE", "moment",
                   "axios", "Backbone", "Ember", "ko"}

FrameworkGlobals == {"React", "__REACT_DEVTOOLS_GLOBAL_HOOK__", "Vue", "__VUE__",
                     "ng", "angular", "__SVELTE__", "svelte", "__NEXT_DATA__",
                     "__NUXT__"}

NextDataScript == "script[id=__NEXT_DATA__]"
NuxtHeadScript == "script[data-n-head=ssr]"

DomProbes == {NextDataScript, NuxtHeadScript}

Globals == LibraryGlobals \cup FrameworkGlobals \cup DomProbes

\* a version property whose getter throws; it is no string of the model
ThrowsOnRead == <<"throw">>

AbsentGlobal == [kind |-> "absent"]
ThrowingGlobal == [kind |-> "throws"]
ObjectGlobal(version) == [kind |-> "object", version |-> version]

\* win[g]
ReadGlobal(w, g) == IF g \in DOMAIN w THEN w[g] ELSE AbsentGlobal

\* the literal "detected" detectFrameworks reports for a Next.js build id
Detected == <<"d", "e", "t", "e", "c", "t", "e", "d">>

\* each detector: the globals its predicate ORs, the globals it then requires
\* to be falsy, the globals its version extractor ORs, and whether the
\* extractor reports the marker "detected" instead of the property's value
libraryDetectors == <<
    [name |-> "jQuery", any |-> <<"jQuery", "$">>, andNot |-> <<>>,
     version |-> <<"jQuery", "$">>, marker |-> FALSE],
    [name |-> "Lodash", any |-> <<"_", "lodash">>, andNot |-> <<>>,
     version |-> <<"_", "lodash">>, marker |-> FALSE],
    [name |-> "D3", any |-> <<"d3">>, andNot |-> <<>>,
     version |-> <<"d3">>, marker |-> FALSE],
    [name |-> "Three.js", any |-> <<"THREE">>, andNot |-> <<>>,
     version |-> <<"THREE">>, marker |-> FALSE],
    [name |-> "Moment.js", any |-> <<"moment">>, andNot |-> <<>>,
     version |-> <<"moment">>, marker |-> FALSE],
    [name |-> "Axios", any |-> <<"axios">>, andNot |-> <<>>,
     version |-> <<"axios">>, marker |-> FALSE],
    [name |-> "Underscore", any |-> <<"_">>, andNot |-> <<"lodash">>,
     version |-> <<"_">>, marker |-> FALSE],
    [name |-> "Backbone", any |-> <<"Backbone">>, andNot |-> <<>>,
     version |-> <<"Backbone">>, marker |-> FALSE],
    [name |-> "Ember", any |-> <<"Ember">>, andNot |-> <<>>,
     version |-> <<"Ember">>, marker |-> FALSE],
    [name |-> "Knockout", any |-> <<"ko">>, andNot |-> <<>>,
     version |-> <<"ko">>, marker |-> FALSE]
  >>

\* the six if-statements of detectFrameworks, in the same form
frameworkDetectors == <<
    [name |-> "React", any |-> <<"React", "__REACT_DEVTOOLS_GLOBAL_HOOK__">>,
     andNot |-> <<>>, version |-> <<"React">>, marker |-> FALSE],
    [name |-> "Vue", any |-> <<"Vue", "__VUE__">>, andNot |-> <<>>,
     version |-> <<"Vue", "__VUE__">>, marker |-> FALSE],
    [name |-> "Angular", any |-> <<"ng", "angular">>, andNot |-> <<>>,
     version |-> <<"angular">>, marker |-> FALSE],
    [name |-> "Svelte", any |-> <<"__SVELTE__", "svelte">>, andNot |-> <<>>,
     version |-> <<"__SVELTE__">>, marker |-> FALSE],
    [name |-> "Next.js", any |-> <<"__NEXT_DATA__", NextDataScript>>,
     andNot |-> <<>>, version |-> <<"__NEXT_DATA__">>, marker |-> TRUE],
    [name |-> "Nuxt", any |-> <<"__NUXT__", NuxtHeadScript>>, andNot |-> <<>>,
     version |-> <<"__NUXT__">>, marker |-> FALSE]
  >>

\* a || b || ... over the globals gs from the i-th on, read left to right:
\* "throw" when a getter throws before a truthy value is met
RECURSIVE ReadAny(_, _, _)
ReadAny(w, gs, i) ==
    IF i > Len(gs) THEN "no"
    ELSE IF ReadGlobal(w, gs[i]).kind = "throws" THEN "throw"
    ELSE IF ReadGlobal(w, gs[i]).kind = "object" THEN "yes"
    ELSE ReadAny(w, gs, i + 1)

\* !a && !b && ... over the globals gs from the i-th on
RECURSIVE ReadNone(_, _, _)
ReadNone(w, gs, i) ==
    IF i > Len(gs) THEN "yes"
    ELSE IF ReadGlobal(w, gs[i]).kind = "throws" THEN "throw"
    ELSE IF ReadGlobal(w, gs[i]).kind = "object" THEN "no"
    ELSE ReadNone(w, gs, i + 1)

\* the predicate of a detector
DetectorHolds(w, d) ==
    LET a == ReadAny(w, d.any, 1)
    IN  IF a # "yes" THEN a ELSE ReadNone(w, d.andNot, 1)

\* a?.p || b?.p || ... || null over the globals gs from the i-th on
RECURSIVE ReadVersion(_, _, _)
ReadVersion(w, gs, i) ==
    IF i > Len(gs) THEN Null
    ELSE LET g == ReadGlobal(w, gs[i])
         IN  IF g.kind = "throws" THEN ThrowsOnRead
             ELSE IF g.kind = "absent" THEN ReadVersion(w, gs, i + 1)
             ELSE IF g.version = ThrowsOnRead THEN ThrowsOnRead
             ELSE IF g.version = Null \/ g.version = <<>>
                  THEN ReadVersion(w, gs, i + 1)
             ELSE g.version

\* the version extractor of a detector
ExtractVersion(w, d) ==
    LET v == ReadVersion(w, d.version, 1)
    IN  IF d.marker /\ v # ThrowsOnRead /\ v # Null THEN Detected ELSE v

\* the loop over a detector table from the i-th detector on: the entries
\* pushed, or threw when a predicate or an extractor threw; nothing catches it
RECURSIVE DetectFrom(_, _, _)
DetectFrom(w, table, i) ==
    IF i > Len(table) THEN [threw |-> FALSE, list |-> <<>>]
    ELSE LET holds == DetectorHolds(w, table[i])
             version == ExtractVersion(w, table[i])
             rest == DetectFrom(w, table, i + 1)
         IN  IF holds = "throw" THEN [threw |-> TRUE, list |-> <<>>]
             ELSE IF holds = "no" THEN rest
             ELSE IF version = ThrowsOnRead THEN [threw |-> TRUE, list |-> <<>>]
             ELSE IF rest.threw THEN rest
             ELSE [threw |-> FALSE,
                   list |-> <<[name |-> table[i].name, version |-> version,
                               detected |-> TRUE]>> \o rest.list]

detectFrameworks(w) == DetectFrom(w, frameworkDetectors, 1)

\* String.prototype.localeCompare on the names of the detector tables, as the
\* root collation orders them: letters compare without regard to case first,
\* digits sort before letters and the full stop before both; names equal that
\* far are ordered lower case first at the first difference
LowerLetters == "abcdefghijklmnopqrstuvwxyz"
UpperLetters == "ABCDEFGHIJKLMNOPQRSTUVWXYZ"
DigitLetters == "0123456789"

\* position of the one-character string c in alphabet, 0 when it is not in it
PositionIn(alphabet, c) ==
    LET at == {i \in 1..Len(alphabet) : SubSeq(alphabet, i, i) = c}
    IN  IF at = {} THEN 0 ELSE CHOOSE i \in at : TRUE

PrimaryWeight(c) ==
    IF PositionIn(LowerLetters, c) > 0 THEN 10 + PositionIn(LowerLetters, c)
    ELSE IF PositionIn(UpperLetters, c) > 0 THEN 10 + PositionIn(UpperLetters, c)
    ELSE PositionIn(DigitLetters, c)

RECURSIVE PrimaryCompare(_, _, _)
PrimaryCompare(a, b, i) ==
    IF i > Len(a) /\ i > Len(b) THEN 0
    ELSE IF i > Len(a) THEN -1
    ELSE IF i > Len(b) THEN 1
    ELSE LET wa == PrimaryWeight(SubSeq(a, i, i))
             wb == PrimaryWeight(SubSeq(b, i, i))
         IN  IF wa < wb THEN -1
             ELSE IF wa > wb THEN 1
             ELSE PrimaryCompare(a, b, i + 1)

RECURSIVE CaseCompare(_, _, _)
CaseCompare(a, b, i) ==
    IF i > Len(a) THEN 0
    ELSE IF SubSeq(a, i, i) = SubSeq(b, i, i) THEN CaseCompare(a, b, i + 1)
    ELSE IF PositionIn(LowerLetters, SubSeq(a, i, i)) > 0 THEN -1
    ELSE 1

localeCompare(a, b) ==
    LET primary == PrimaryCompare(a, b, 1)
    IN  IF primary # 0 THEN primary ELSE CaseCompare(a, b, 1)

\* Array.prototype.sort with (a, b) => a.name.localeCompare(b.name): a stable
\* sort, here by insertion of each entry behind those that do not follow it
RECURSIVE InsertByName(_, _)
InsertByName(sorted, x) ==
    IF Len(sorted) = 0 THEN <<x>>
    ELSE IF localeCompare(sorted[Len(sorted)].name, x.name) <= 0
         THEN Append(sorted, x)
    ELSE Append(InsertByName(SubSeq(sorted, 1, Len(sorted) - 1), x),
                sorted[Len(sorted)])

RECURSIVE SortByNameFrom(_, _, _)
SortByNameFrom(list, i, sorted) ==
    IF i > Len(list) THEN sorted
    ELSE SortByNameFrom(list, i + 1, InsertByName(sorted, list[i]))

\* the sort gone wrong: the entries stay in the order of the detector table
KeepTableOrder(list) == list

SortByName(list) == SortByNameFrom(list, 1, <<>>)

detectLibraries(w) ==
    LET found == DetectFrom(w, libraryDetectors, 1)
    IN  IF found.threw THEN found
        ELSE [threw |-> FALSE, list |-> SortByName(found.list)]

(***************************************************************************)
(* detectSecurityIssues.                                                   *)
(***************************************************************************)
Issue(type, severity, script, library, version) ==
    [type |-> type, severity |-> severity, script |-> script,
     library |-> library, version |-> version]

\* the loop over the dependencies gone wrong: every finding is given severity
\* high instead of the severity of its rule
RECURSIVE VulnerableIssuesAllHigh(_, _)
VulnerableIssuesAllHigh(deps, i) ==
    IF i > Len(deps) THEN <<>>
    ELSE LET vuln == isVersionVulnerable(deps[i], vulnerableVersions)
         IN  IF vuln # 0
             THEN <<Issue("vulnerable_version", "high",
                          "", deps[i].name, deps[i].version)>>
                      \o VulnerableIssuesAllHigh(deps, i + 1)
             ELSE VulnerableIssuesAllHigh(deps, i + 1)

\* the findings of the loop over the dependencies, from the i-th on
RECURSIVE VulnerableIssues(_, _)
VulnerableIssues(deps, i) ==
    IF i > Len(deps) THEN <<>>
    ELSE LET vuln == isVersionVulnerable(deps[i], vulnerableVersions)
         IN  IF vuln # 0
             THEN <<Issue("vulnerable_version", vulnerableVersions[vuln].severity,
                          "", deps[i].name, deps[i].version)>>
                      \o VulnerableIssues(deps, i + 1)
             ELSE VulnerableIssues(deps, i + 1)

\* the findings of the loop over the scripts, from the i-th on
RECURSIVE EvalIssues(_, _)
EvalIssues(scr, i) ==
    IF i > Len(scr) THEN <<>>
    ELSE IF scr[i].hasEval
         THEN <<Issue("eval_usage", "high", scr[i].src, "", Null)>>
                  \o EvalIssues(scr, i + 1)
    ELSE EvalIssues(scr, i + 1)

\* the CSP probe gone wrong: the second query, for meta[name="csp"], is missing
detectSecurityIssuesOneQuery(scr, libs, fws, csp) ==
    LET untrustedScripts == SelectSeq(scr, LAMBDA x : x.untrustedDomain)
    IN  (IF Len(untrustedScripts) > 0
         THEN <<Issue("untrusted_domain", "medium", untrustedScripts[1].src, "", Null)>>
         ELSE <<>>)
        \o VulnerableIssues(libs \o fws, 1)
        \o EvalIssues(scr, 1)
        \o (IF ~csp.httpEquiv
            THEN <<Issue("csp_violation", "low", "", "", Null)>>
            ELSE <<>>)

detectSecurityIssues(scr, libs, fws, csp) ==
    LET untrustedScripts == SelectSeq(scr, LAMBDA x : x.untrustedDomain)
    IN  (IF Len(untrustedScripts) > 0
         THEN <<Issue("untrusted_domain", "medium", untrustedScripts[1].src, "", Null)>>
         ELSE <<>>)
        \o VulnerableIssues(libs \o fws, 1)
        \o EvalIssues(scr, 1)
        \o (IF ~csp.httpEquiv /\ ~csp.nameCsp
            THEN <<Issue("csp_violation", "low", "", "", Null)>>
            ELSE <<>>)

(***************************************************************************)
(* analyzePage: the aggregation after the checks have settled.             *)
(***************************************************************************)
RECURSIVE SumSize(_)
SumSize(scr) == IF Len(scr) = 0 THEN 0 ELSE scr[1].size + SumSize(Tail(scr))

RECURSIVE SumGzippedSize(_)
SumGzippedSize(scr) ==
    IF Len(scr) = 0 THEN 0 ELSE scr[1].gzippedSize + SumGzippedSize(Tail(scr))

\* the third-party filter gone wrong: taken from the untrusted-domain flag
ThirdPartyByUntrusted(scr) == SelectSeq(scr, LAMBDA x : x.untrustedDomain)

FirstPartyScripts(scr) == SelectSeq(scr, LAMBDA x : x.firstParty)

ThirdPartyScripts(scr) == SelectSeq(scr, LAMBDA x : ~x.firstParty)

CdnScripts(scr) == SelectSeq(scr, LAMBDA x : x.isCDN)

\* libraries.slice(0, 5)
LibraryCap == 5

\* the cut gone wrong: the last n elements are kept, as slice(-n) does
SliceLast(seq, n) == SubSeq(seq, IF Len(seq) < n THEN 1 ELSE Len(seq) - n + 1, Len(seq))

Slice(seq, n) == SubSeq(seq, 1, IF Len(seq) < n THEN Len(seq) ELSE n)

NoSnapshot == [built |-> FALSE]

\* the record collectPerformanceMetrics starts from; of its fields the model
\* keeps the two the long-task observer writes
NoMetrics == [longTasks |-> 0, mainThreadBlockingTime |-> 0]

\* a long task counts when it lasted more than this many milliseconds
LongTaskThreshold == 50

\* the callback of the long-task observer, for one entry of the list
ObserveLongTask(m, duration) ==
    IF duration > LongTaskThreshold
    THEN [longTasks |-> m.longTasks + 1,
          mainThreadBlockingTime |->
              m.mainThreadBlockingTime + (duration - LongTaskThreshold)]
    ELSE m

\* the observers registered once collectPerformanceMetrics has run: one more
\* when PerformanceObserver exists and observe() does not throw; none is ever
\* disconnected
RegisterObserver(api, n) == IF api = "ok" THEN n + 1 ELSE n

\* what collectPerformanceMetrics returns, whether or not it could register
\* its observer; the observer's callback keeps writing to this record
collectPerformanceMetrics == NoMetrics

\* the value analyzePage returns (timestamp left out); performance is the
\* very record collectPerformanceMetrics returned
BuildSnapshot(scr, libs, fws, csp, perf) ==
    [built |-> TRUE,
     scripts |-> scr,
     frameworks |-> fws,
     libraries |-> Slice(libs, LibraryCap),
     performance |-> perf,
     totalSize |-> SumSize(scr),
     totalGzippedSize |-> SumGzippedSize(scr),
     firstPartySize |-> SumSize(FirstPartyScripts(scr)),
     thirdPartySize |-> SumSize(ThirdPartyScripts(scr)),
     firstPartyCount |-> Len(FirstPartyScripts(scr)),
     thirdPartyCount |-> Len(ThirdPartyScripts(scr)),
     cdnCount |-> Len(CdnScripts(scr)),
     cdnSize |-> SumSize(CdnScripts(scr)),
     securityIssues |-> detectSecurityIssues(scr, libs, fws, csp)]

(***************************************************************************)
(* State.                                                                  *)
(***************************************************************************)
VARIABLES
    perfEntries,    \* performance.getEntriesByType("resource")
    scriptTags,     \* the src of each script[src] element, in document order
    inlineScripts,  \* the text of each script:not([src]) element
    win,            \* what reading each global the window defines gives
    cspMeta,        \* which of the two CSP meta elements the document has
    perfApi,        \* PerformanceObserver: "absent", "rejects" (observe throws), "ok"
    libraries,      \* analyzePage: what detectLibraries() returned
    frameworks,     \* analyzePage: what detectFrameworks() returned
    metrics,        \* analyzePage: the record collectPerformanceMetrics() returned
    pc,             \* analyzePage: "idle", "checking" (at the await), "done",
                    \* "failed" (it threw: the promise is rejected)
    scriptMap,      \* collectScriptInfo's map from name to the entry kept
    scripts,        \* the ScriptInfo array of the pass
    checks,         \* the eval check of each script
    fetched,        \* the sources fetch() has been called with
    outcomes,       \* per check, how its fetch and its body read ended, "" before
    snapshot,       \* the value analyzePage has returned
    dependency,     \* the argument of a call of isVersionVulnerable
    advisory,       \* its result: -1 before the call, else the rule index
    observers,      \* how many long-task observers the page has registered
    extensionActive,\* content script: the flag of that name
    port,           \* content script: "none", "connected" or "disconnected"
    listener,       \* content script: is its onMessage listener registered
    loadPass,       \* content script: the stage of sendAnalysisToBackground
    requests,       \* content script: each message its listener was given
    sends,          \* content script: each call of chrome.runtime.sendMessage
    analysisCache,  \* background: the map of that name, url to snapshot
    storage,        \* background: chrome.storage.local, key to value
    storageQueue,   \* background: storage operations issued and not completed
    received,       \* background: the PAGE_ANALYSIS messages received, in order
    answers,        \* background: the GET_ANALYSIS messages and their responses
    now,            \* background: Date.now(), in days
    report          \* popup: what the last export or recommendation computed

vars == <<perfEntries, scriptTags, inlineScripts, win, cspMeta, perfApi,
          libraries, frameworks, metrics,
          pc, scriptMap, scripts, checks, fetched, outcomes, snapshot,
          dependency, advisory, observers,
          extensionActive, port, listener, loadPass, requests, sends,
          analysisCache, storage, storageQueue, received, answers, now, report>>

contentVars == <<extensionActive, port, listener, loadPass, requests, sends>>

bgVars == <<analysisCache, storage, storageQueue, received, answers, now>>

docVars == <<perfEntries, scriptTags, inlineScripts, win, cspMeta, perfApi>>

passVars == <<libraries, frameworks, metrics>>

verVars == <<dependency, advisory>>

Entries == [name : Urls, initiatorType : {"script", "other"},
            transferSize : 0..MaxSize, decodedBodySize : 0..MaxSize,
            encodedBodySize : 0..MaxSize]

\* an inline text: its length and whether one of the eval patterns matches it
InlineTexts == {[length |-> 0, evalHit |-> FALSE]}
                   \cup [length : 1..MaxText, evalHit : BOOLEAN]

NoDependency == [name |-> "", version |-> Null]

\* a window with none of the probed globals and none of the probed elements
EmptyWindow == <<>>

\* a document with no probed global, no CSP meta element, and a working
\* long-task observer
PlainDocument ==
    /\ win = EmptyWindow
    /\ cspMeta = [httpEquiv |-> FALSE, nameCsp |-> FALSE]
    /\ perfApi = "ok"

\* the state before a pass, whatever the document
Fresh ==
    /\ libraries = <<>>
    /\ frameworks = <<>>
    /\ metrics = NoMetrics
    /\ pc = "idle"
    /\ scriptMap = <<>>
    /\ scripts = <<>>
    /\ checks = <<>>
    /\ fetched = {}
    /\ outcomes = <<>>
    /\ snapshot = NoSnapshot
    /\ observers = 0

\* the content script loaded with its port connected and its listener
\* registered, its page-load timer pending, and no message received yet
ContentIdle ==
    /\ extensionActive = TRUE
    /\ port = "connected"
    /\ listener = TRUE
    /\ loadPass = [stage |-> "timer"]
    /\ requests = <<>>
    /\ sends = <<>>

NoReport == [made |-> FALSE]

\* the popup has computed nothing
PopupIdle == report = NoReport

\* the background just started: an empty cache, empty storage, nothing pending
BackgroundIdle ==
    /\ analysisCache = <<>>
    /\ storage = <<>>
    /\ storageQueue = <<>>
    /\ received = <<>>
    /\ answers = <<>>
    /\ now = 0

Init ==
    /\ perfEntries \in SeqsUpTo(Entries, MaxEntries)
    /\ scriptTags \in SeqsUpTo(Urls, MaxTags)
    /\ inlineScripts \in SeqsUpTo(InlineTexts, MaxInline)
    /\ PlainDocument
    /\ Fresh
    /\ ContentIdle
    /\ BackgroundIdle
    /\ PopupIdle
    /\ dependency = NoDependency
    /\ advisory = -1

(***************************************************************************)
(* Actions of the analysis pass.                                           *)
(***************************************************************************)
\* analyzePage up to `await checkScriptsForEval(scripts)`: the inventory is
\* collected and every check runs to its first suspension point
\* does analyzePage throw before its await: collectScriptInfo,
\* detectFrameworks and detectLibraries are called with no try around them
AnalyzeThrows ==
    \/ collectScriptInfoThrows(perfEntries, scriptTags)
    \/ detectFrameworks(win).threw
    \/ detectLibraries(win).threw

AnalyzeStart ==
    /\ pc = "idle"
    /\ IF AnalyzeThrows
       THEN /\ pc' = "failed"
            /\ UNCHANGED <<scriptMap, scripts, checks, fetched, outcomes, passVars,
                           observers>>
       ELSE /\ pc' = "checking"
            /\ scriptMap' = BuildScriptMap(perfEntries, 1, <<>>)
            /\ scripts' = collectScriptInfo(perfEntries, scriptTags, inlineScripts)
            /\ frameworks' = detectFrameworks(win).list
            /\ libraries' = detectLibraries(win).list
            /\ metrics' = collectPerformanceMetrics
            /\ observers' = RegisterObserver(perfApi, observers)
            /\ checks' = [i \in 1..Len(scripts') |-> StartCheck(scripts'[i])]
            /\ fetched' = FetchesIssued(scripts')
            /\ outcomes' = [i \in 1..Len(scripts') |-> [fetch |-> "", text |-> ""]]
    /\ UNCHANGED <<docVars, snapshot, verVars, contentVars, bgVars, report>>

\* the response test gone wrong: only a missing response is treated as a
\* failure, the body of a response that is not ok is read
FetchSettlesIgnoringOk(i, outcome) ==
    /\ i \in 1..Len(checks)
    /\ checks[i].stage = "fetch"
    /\ outcome \in {"reject", "notOk", "ok"}
    /\ checks' = [checks EXCEPT ![i] =
                     IF outcome # "reject" THEN [stage |-> "text", value |-> FALSE]
                     ELSE [stage |-> "ret", value |-> FALSE]]
    /\ outcomes' = [outcomes EXCEPT ![i].fetch = outcome]
    /\ UNCHANGED <<docVars, passVars, observers, pc, scriptMap, scripts, fetched, snapshot,
                   verVars, contentVars, bgVars, report>>

\* `await fetch(scriptSrc).catch(() => null)` of check i resumes: the fetch
\* rejected, or resolved with a response that is ok or not
FetchSettles(i, outcome) ==
    /\ i \in 1..Len(checks)
    /\ checks[i].stage = "fetch"
    /\ outcome \in {"reject", "notOk", "ok"}
    /\ checks' = [checks EXCEPT ![i] =
                     IF outcome = "ok" THEN [stage |-> "text", value |-> FALSE]
                     ELSE [stage |-> "ret", value |-> FALSE]]
    /\ outcomes' = [outcomes EXCEPT ![i].fetch = outcome]
    /\ UNCHANGED <<docVars, passVars, observers, pc, scriptMap, scripts, fetched, snapshot,
                   verVars, contentVars, bgVars, report>>

\* `await response.text()` of check i resumes: reading the body failed, or the
\* body matches one of the eval patterns, or it matches none
TextSettles(i, outcome) ==
    /\ i \in 1..Len(checks)
    /\ checks[i].stage = "text"
    /\ outcome \in {"fail", "hit", "miss"}
    /\ checks' = [checks EXCEPT ![i] = [stage |-> "ret", value |-> (outcome = "hit")]]
    /\ outcomes' = [outcomes EXCEPT ![i].text = outcome]
    /\ UNCHANGED <<docVars, passVars, observers, pc, scriptMap, scripts, fetched, snapshot,
                   verVars, contentVars, bgVars, report>>

\* `script.hasEval = hasEval` of check i.  The snapshot holds the very array
\* `scripts`, so a write after the snapshot is built shows in the snapshot.
CheckReturns(i) ==
    /\ i \in 1..Len(checks)
    /\ checks[i].stage = "ret"
    /\ scripts' = [scripts EXCEPT ![i].hasEval = checks[i].value]
    /\ checks' = [checks EXCEPT ![i].stage = "done"]
    /\ snapshot' = IF snapshot.built THEN [snapshot EXCEPT !.scripts = scripts']
                   ELSE snapshot
    /\ UNCHANGED <<docVars, passVars, observers, pc, scriptMap, fetched, outcomes, verVars, contentVars, bgVars, report>>

\* analyzePage after the await: totals, detectSecurityIssues, the return
AnalyzeFinish ==
    /\ pc = "checking"
    /\ AllSettled(checks)
    /\ pc' = "done"
    /\ snapshot' = BuildSnapshot(scripts, libraries, frameworks, cspMeta, metrics)
    /\ UNCHANGED <<docVars, passVars, observers, scriptMap, scripts, checks, fetched, outcomes,
                   verVars, contentVars, bgVars, report>>

Next ==
    \/ AnalyzeStart
    \/ \E i \in 1..(MaxEntries + MaxTags + MaxInline) :
           \E outcome \in {"reject", "notOk", "ok"} : FetchSettles(i, outcome)
    \/ \E i \in 1..(MaxEntries + MaxTags + MaxInline) :
           \E outcome \in {"fail", "hit", "miss"} : TextSettles(i, outcome)
    \/ \E i \in 1..(MaxEntries + MaxTags + MaxInline) : CheckReturns(i)
    \/ AnalyzeFinish

Spec == Init /\ [][Next]_vars

(***************************************************************************)
(* Documents with no script tags and no inline scripts, whose timing       *)
(* entries are all initiated by scripts, report no encoded size and take   *)
(* more transferred and decoded sizes: the reconciliation of duplicate     *)
(* timing entries.                                                         *)
(***************************************************************************)
DedupEntries == [name : Urls, initiatorType : {"script"},
                 transferSize : 0..MaxDedupSize, decodedBodySize : 0..MaxDedupSize,
                 encodedBodySize : {0}]

DedupInit ==
    /\ perfEntries \in SeqsUpTo(DedupEntries, MaxEntries)
    /\ scriptTags = <<>>
    /\ inlineScripts = <<>>
    /\ PlainDocument
    /\ Fresh
    /\ ContentIdle
    /\ BackgroundIdle
    /\ PopupIdle
    /\ dependency = NoDependency
    /\ advisory = -1

DedupSpec == DedupInit /\ [][Next]_vars

(***************************************************************************)
(* The version advisory on its own: isVersionVulnerable applied to a       *)
(* dependency drawn from the inputs below.                                 *)
(***************************************************************************)
\* "a", "a.b", ... with up to MaxParts components, each in 0..MaxComp
RECURSIVE Dotted(_)
Dotted(parts) ==
    IF Len(parts) = 1 THEN Dec(parts[1])
    ELSE Dec(parts[1]) \o <<".">> \o Dotted(Tail(parts))

DottedVersions ==
    {Dotted(parts) : parts \in UNION {[1..k -> 0..MaxComp] : k \in 1..MaxParts}}

\* the absent version, every short string, the dotted versions, and the
\* dotted versions of three components with a pre-release qualifier or in blanks
VersionInputs ==
    LET triples == {v \in DottedVersions : Len(Split(v, ".")) = 3}
    IN  {Null} \cup SeqsUpTo(VerChars, MaxVerLen) \cup DottedVersions
            \cup {v \o <<"-", "r">> : v \in triples}
            \cup {<<" ">> \o v \o <<" ">> : v \in triples}

VerInit ==
    /\ perfEntries = <<>>
    /\ scriptTags = <<>>
    /\ inlineScripts = <<>>
    /\ PlainDocument
    /\ Fresh
    /\ ContentIdle
    /\ BackgroundIdle
    /\ PopupIdle
    /\ dependency \in [name : DepNames, version : VersionInputs]
    /\ advisory = -1

\* one call of isVersionVulnerable(dependency, vulnerableVersions)
CheckVersion ==
    /\ advisory = -1
    /\ dependency # NoDependency
    /\ advisory' = isVersionVulnerable(dependency, vulnerableVersions)
    /\ UNCHANGED <<docVars, passVars, observers, pc, scriptMap, scripts, checks, fetched,
                   outcomes, snapshot, dependency, contentVars, bgVars, report>>

VerNext == CheckVersion

VerSpec == VerInit /\ [][VerNext]_vars

(***************************************************************************)
(* Documents whose window and CSP meta elements vary: the dependency       *)
(* detectors and the findings computed from what they report.              *)
(***************************************************************************)
\* the globals given a value of their own
ProbedGlobals == {"jQuery", "$", "_", "lodash", "moment", "React", "angular",
                  "Vue", "__VUE__", "__NEXT_DATA__"}

\* version strings a probed global may carry
DetectVersions == {V3(3, 4, 0), V3(3, 5, 0), V3(1, 2, 0)}

\* what a probed global may be: a getter that throws, or an object whose
\* version property is absent, throws, or is one of the versions
GlobalValues ==
    {ThrowingGlobal}
        \cup {ObjectGlobal(v) : v \in DetectVersions \cup {Null, ThrowsOnRead}}

\* the window where the globals of `special` have the values it gives, the
\* other names in `present` are plain objects (or elements), and the rest absent
Window(present, special) ==
    [g \in present \cup DOMAIN special |->
        IF g \in DOMAIN special THEN special[g] ELSE ObjectGlobal(Null)]

\* one signature of each framework
FrameworkSignatures == {"__REACT_DEVTOOLS_GLOBAL_HOOK__", "Vue", "ng", "svelte",
                        NextDataScript, "__NUXT__"}

\* every set of plain library globals (`$` apart), alone or with every
\* framework global and element; every set of framework signatures; and every
\* assignment of values to at most MaxGlobals of the probed globals
WinInputs ==
    {Window(L \cup F, <<>>) : L \in SUBSET (LibraryGlobals \ {"$"}),
                              F \in {{}, FrameworkGlobals \cup DomProbes}}
        \cup {Window(F, <<>>) : F \in SUBSET FrameworkSignatures}
        \cup {Window({}, special) :
                 special \in UNION {[S -> GlobalValues] :
                                       S \in {T \in SUBSET ProbedGlobals :
                                                 Cardinality(T) <= MaxGlobals}}}

\* timing entries of a same-origin script and of a script on an unknown host
DetectEntries == [name : {AppJs, EvilJs}, initiatorType : {"script"},
                  transferSize : {1}, decodedBodySize : {0}, encodedBodySize : {0}]

\* the windows whose only global is jQuery, and the empty window
JQueryWindows ==
    {EmptyWindow} \cup {Window({}, [g \in {"jQuery"} |-> v]) : v \in GlobalValues}

\* windows with six libraries, of which jQuery, sorted fifth, and Moment.js,
\* sorted sixth, carry a version
CrowdedWindows ==
    {Window({"axios", "Backbone", "d3", "Ember"},
            [g \in {"jQuery", "moment"} |->
                ObjectGlobal(IF g = "jQuery" THEN v1 ELSE v2)]) :
        v1, v2 \in DetectVersions}

\* either a document with any of the windows above and nothing else, or a
\* document with at most jQuery, any CSP meta elements and timing entries
DetectInit ==
    /\ \/ /\ win \in WinInputs \cup CrowdedWindows
          /\ cspMeta = [httpEquiv |-> FALSE, nameCsp |-> FALSE]
          /\ perfEntries = <<>>
       \/ /\ win \in JQueryWindows
          /\ cspMeta \in [httpEquiv : BOOLEAN, nameCsp : BOOLEAN]
          /\ perfEntries \in SeqsUpTo(DetectEntries, MaxDetectEntries)
    /\ scriptTags = <<>>
    /\ inlineScripts = <<>>
    /\ perfApi = "ok"
    /\ Fresh
    /\ ContentIdle
    /\ BackgroundIdle
    /\ PopupIdle
    /\ dependency = NoDependency
    /\ advisory = -1

DetectSpec == DetectInit /\ [][Next]_vars

(***************************************************************************)
(* Documents whose resources are on hosts of every kind, one of them with  *)
(* a name the URL parser rejects: the classification of each resource.     *)
(***************************************************************************)
HostEntries == [name : HostUrls, initiatorType : {"script", "other"},
                transferSize : 0..1, decodedBodySize : {0}, encodedBodySize : {0}]

HostInit ==
    /\ perfEntries \in SeqsUpTo(HostEntries, MaxHostEntries)
    /\ scriptTags \in SeqsUpTo({BadUrl, EvilJs}, MaxHostTags)
    /\ inlineScripts = <<>>
    /\ PlainDocument
    /\ Fresh
    /\ ContentIdle
    /\ BackgroundIdle
    /\ PopupIdle
    /\ dependency = NoDependency
    /\ advisory = -1

HostSpec == HostInit /\ [][Next]_vars

(***************************************************************************)
(* Documents whose scripts have sizes as a browser measures them, in       *)
(* bytes: a first-party script and a script on a CDN.                      *)
(***************************************************************************)
SizedEntries == [name : {AppJs, LibJs}, initiatorType : {"script"},
                 transferSize : {1200, 20000}, decodedBodySize : {3000, 50000},
                 encodedBodySize : {0, 1200}]

SizedInit ==
    /\ perfEntries \in SeqsUpTo(SizedEntries, MaxSizedEntries)
    /\ scriptTags \in SeqsUpTo({AppJs, LibJs}, MaxSizedTags)
    /\ inlineScripts = <<>>
    /\ PlainDocument
    /\ Fresh
    /\ ContentIdle
    /\ BackgroundIdle
    /\ PopupIdle
    /\ dependency = NoDependency
    /\ advisory = -1

SizedSpec == SizedInit /\ [][Next]_vars

(***************************************************************************)
(* The long-task observer.  collectPerformanceMetrics registers it, when   *)
(* PerformanceObserver exists and observe() does not throw, and nothing    *)
(* disconnects it: the browser may deliver long-task entries to its        *)
(* callback during the pass and after it.                                  *)
(***************************************************************************)
\* durations of the long-task entries delivered, in milliseconds
LongTaskDurations == {50, 51, 120}

\* is the observer of the pass registered
Observing == perfApi = "ok" /\ pc \in {"checking", "done"}

\* the observer's callback runs for one entry.  The snapshot holds the very
\* record the callback writes to.
LongTaskDelivered(duration) ==
    /\ Observing
    /\ duration \in LongTaskDurations
    /\ metrics.longTasks < MaxLongTasks
    /\ metrics' = ObserveLongTask(metrics, duration)
    /\ snapshot' = IF snapshot.built THEN [snapshot EXCEPT !.performance = metrics']
                   ELSE snapshot
    /\ UNCHANGED <<docVars, libraries, frameworks, observers, pc, scriptMap, scripts, checks,
                   fetched, outcomes, verVars, contentVars, bgVars, report>>

PerfInit ==
    /\ perfEntries \in SeqsUpTo(DetectEntries, MaxDetectEntries)
    /\ scriptTags = <<>>
    /\ inlineScripts = <<>>
    /\ win = EmptyWindow
    /\ cspMeta = [httpEquiv |-> FALSE, nameCsp |-> FALSE]
    /\ perfApi \in {"absent", "rejects", "ok"}
    /\ Fresh
    /\ ContentIdle
    /\ BackgroundIdle
    /\ PopupIdle
    /\ dependency = NoDependency
    /\ advisory = -1

PerfNext ==
    \/ Next
    \/ \E duration \in LongTaskDurations : LongTaskDelivered(duration)

PerfSpec == PerfInit /\ [][PerfNext]_vars

(***************************************************************************)
(* Documents that may declare the same script more than once, with timing  *)
(* entries of scripts and of other resources.                              *)
(***************************************************************************)
TagEntries == [name : Urls, initiatorType : {"script", "other"},
               transferSize : 0..1, decodedBodySize : {0}, encodedBodySize : {0}]

TagInit ==
    /\ perfEntries \in SeqsUpTo(TagEntries, MaxTagEntries)
    /\ scriptTags \in SeqsUpTo(Urls, MaxRepeatedTags)
    /\ inlineScripts = <<>>
    /\ PlainDocument
    /\ Fresh
    /\ ContentIdle
    /\ BackgroundIdle
    /\ PopupIdle
    /\ dependency = NoDependency
    /\ advisory = -1

TagSpec == TagInit /\ [][Next]_vars

(***************************************************************************)
(* The content script around analyzePage: the extensionActive flag, the    *)
(* page-load pass (sendAnalysisToBackground, run by a timer) and the       *)
(* onMessage listener.  Of analyzePage the callers see its promise: it is  *)
(* rejected in the task that called it when it throws before its await,    *)
(* and is otherwise resolved once the eval checks of the pass have         *)
(* settled, which other tasks may precede.                                 *)
(***************************************************************************)
\* messages of errors: the one of a lost extension context, two others, and
\* "" for a value that has no message (a thrown string, a lastError without one)
ContextInvalidatedMessage == "Extension context invalidated."
NoReceiverMessage == "Could not establish connection. Receiving end does not exist."
InvalidUrlMessage == "Invalid URL"
NoMessage == ""

ErrorMessages == {ContextInvalidatedMessage, NoReceiverMessage, InvalidUrlMessage}

\* message.includes("Extension context invalidated")
IsContextInvalidated(message) == Includes(message, "Extension context invalidated")

\* what analyzePage's promise may be rejected with, and what
\* chrome.runtime.sendMessage may throw: an Error, or another value
ThrownValues ==
    [source : {"thrown"}, isError : {TRUE}, message : ErrorMessages]
        \cup {[source |-> "thrown", isError |-> FALSE, message |-> NoMessage]}

\* chrome.runtime.lastError when it is set
LastErrors ==
    [source : {"lastError"}, isError : {FALSE},
     message : {ContextInvalidatedMessage, NoReceiverMessage, NoMessage}]

NoFailure == [source |-> "none", isError |-> FALSE, message |-> NoMessage]

\* error instanceof Error && error.message.includes("Extension context invalidated")
ThrownInvalidated(error) == error.isError /\ IsContextInvalidated(error.message)

\* chrome.runtime.lastError.message?.includes("Extension context invalidated")
LastErrorInvalidated(error) == IsContextInvalidated(error.message)

FailureInvalidated(f) ==
    IF f.source = "thrown" THEN ThrownInvalidated(f) ELSE LastErrorInvalidated(f)

\* the three responses of the listener
ContextGone == [success |-> FALSE, error |-> "Extension context invalidated"]
GenericFailure == [success |-> FALSE]
Succeeded == [success |-> TRUE]

\* the response gone wrong: every failure is answered alike
FailureResponseAlwaysGeneric(f) == GenericFailure

\* the response of the listener to a failure
FailureResponse(f) == IF FailureInvalidated(f) THEN ContextGone ELSE GenericFailure

\* extensionActive after a failure was handled
ActiveAfter(active, f) == IF FailureInvalidated(f) THEN FALSE ELSE active

MessageTypes == {"REQUEST_ANALYSIS", "SCRIPT_SIZE"}

\* a message given to the listener: its type, how far its handling has come,
\* the arguments sendResponse was invoked with, and the failure handled
Request(type, stage, responses, failure) ==
    [type |-> type, stage |-> stage, responses |-> responses, failure |-> failure]

\* the port's onDisconnect listener
PortDisconnects ==
    /\ port = "connected"
    /\ port' = "disconnected"
    /\ extensionActive' = FALSE
    /\ UNCHANGED <<listener, loadPass, requests, sends>>
    /\ UNCHANGED <<docVars, passVars, observers, pc, scriptMap, scripts, checks,
                   fetched, outcomes, snapshot, verVars, bgVars, report>>

\* the window's "error" and "unhandledrejection" listeners, for an event whose
\* error or reason has the given message
ErrorEvent(message) ==
    /\ message \in ErrorMessages \cup {NoMessage}
    /\ extensionActive' = IF IsContextInvalidated(message) THEN FALSE
                          ELSE extensionActive
    /\ UNCHANGED <<port, listener, loadPass, requests, sends>>
    /\ UNCHANGED <<docVars, passVars, observers, pc, scriptMap, scripts, checks,
                   fetched, outcomes, snapshot, verVars, bgVars, report>>

\* the timer of the page-load pass fires: sendAnalysisToBackground up to its
\* await, and its catch when analyzePage throws at once
TimerFires(thrown) ==
    /\ loadPass.stage = "timer"
    /\ thrown \in ThrownValues
    /\ IF ~extensionActive
       THEN /\ loadPass' = [stage |-> "done"]
            /\ UNCHANGED <<extensionActive, observers>>
       ELSE IF AnalyzeThrows
       THEN /\ loadPass' = [stage |-> "done"]
            /\ extensionActive' = ActiveAfter(extensionActive, thrown)
            /\ UNCHANGED observers
       ELSE /\ loadPass' = [stage |-> "analysing"]
            /\ observers' = RegisterObserver(perfApi, observers)
            /\ UNCHANGED extensionActive
    /\ UNCHANGED <<port, listener, requests, sends>>
    /\ UNCHANGED <<docVars, passVars, pc, scriptMap, scripts, checks,
                   fetched, outcomes, snapshot, verVars, bgVars, report>>

\* what a call of chrome.runtime.sendMessage may do: take the message, or
\* throw an Error
SendOutcomes ==
    {NoFailure} \cup {t \in ThrownValues : t.isError /\ t.message # InvalidUrlMessage}

\* sendAnalysisToBackground after its await: the second test of the flag and
\* the call of chrome.runtime.sendMessage
LoadAnalysisResolves(send) ==
    /\ loadPass.stage = "analysing"
    /\ send \in SendOutcomes
    /\ IF ~extensionActive
       THEN /\ loadPass' = [stage |-> "done"]
            /\ UNCHANGED <<extensionActive, sends>>
       ELSE /\ sends' = Append(sends, [by |-> 0, active |-> extensionActive])
            /\ loadPass' = [stage |-> IF send = NoFailure THEN "sending" ELSE "done"]
            /\ extensionActive' = ActiveAfter(extensionActive, send)
    /\ UNCHANGED <<port, listener, requests>>
    /\ UNCHANGED <<docVars, passVars, observers, pc, scriptMap, scripts, checks,
                   fetched, outcomes, snapshot, verVars, bgVars, report>>

\* the callback the page-load pass gave to chrome.runtime.sendMessage
LoadSendCallback(lastError) ==
    /\ loadPass.stage = "sending"
    /\ lastError \in LastErrors \cup {NoFailure}
    /\ loadPass' = [stage |-> "done"]
    /\ extensionActive' = ActiveAfter(extensionActive, lastError)
    /\ UNCHANGED <<port, listener, requests, sends>>
    /\ UNCHANGED <<docVars, passVars, observers, pc, scriptMap, scripts, checks,
                   fetched, outcomes, snapshot, verVars, bgVars, report>>

\* the onMessage listener is called with a message of the given type: its
\* synchronous part, and the catch of the promise chain when analyzePage
\* throws at once
RequestArrives(type, thrown) ==
    /\ listener
    /\ Len(requests) < MaxRequests
    /\ type \in MessageTypes
    /\ thrown \in ThrownValues
    /\ IF ~extensionActive
       THEN /\ requests' = Append(requests,
                               Request(type, "done", <<ContextGone>>, NoFailure))
            /\ UNCHANGED <<extensionActive, observers>>
       ELSE IF type # "REQUEST_ANALYSIS"
       THEN /\ requests' = Append(requests, Request(type, "done", <<>>, NoFailure))
            /\ UNCHANGED <<extensionActive, observers>>
       ELSE IF AnalyzeThrows
       THEN /\ requests' = Append(requests,
                               Request(type, "done", <<FailureResponse(thrown)>>, thrown))
            /\ extensionActive' = ActiveAfter(extensionActive, thrown)
            /\ UNCHANGED observers
       ELSE /\ requests' = Append(requests, Request(type, "analysing", <<>>, NoFailure))
            /\ observers' = RegisterObserver(perfApi, observers)
            /\ UNCHANGED extensionActive
    /\ UNCHANGED <<port, listener, loadPass, sends>>
    /\ UNCHANGED <<docVars, passVars, pc, scriptMap, scripts, checks,
                   fetched, outcomes, snapshot, verVars, bgVars, report>>

\* the then-callback gone wrong: the flag is not tested again after the
\* analysis, the message is sent whatever it is
AnalysisResolvesNoRecheck(i, send) ==
    /\ i \in 1..Len(requests)
    /\ requests[i].stage = "analysing"
    /\ send \in SendOutcomes
    /\ sends' = Append(sends, [by |-> i, active |-> extensionActive])
    /\ requests' = [requests EXCEPT ![i] =
           IF send = NoFailure
           THEN Request(@.type, "sending", @.responses, NoFailure)
           ELSE Request(@.type, "done",
                        Append(@.responses, FailureResponse(send)), send)]
    /\ extensionActive' = ActiveAfter(extensionActive, send)
    /\ UNCHANGED <<port, listener, loadPass>>
    /\ UNCHANGED <<docVars, passVars, observers, pc, scriptMap, scripts, checks,
                   fetched, outcomes, snapshot, verVars, bgVars, report>>

\* the then-callback of the listener's analyzePage(): the test of the flag,
\* the call of chrome.runtime.sendMessage and the catch around it
AnalysisResolves(i, send) ==
    /\ i \in 1..Len(requests)
    /\ requests[i].stage = "analysing"
    /\ send \in SendOutcomes
    /\ IF ~extensionActive
       THEN /\ requests' = [requests EXCEPT ![i] =
                   Request(@.type, "done", Append(@.responses, ContextGone), NoFailure)]
            /\ UNCHANGED <<extensionActive, sends>>
       ELSE /\ sends' = Append(sends, [by |-> i, active |-> extensionActive])
            /\ requests' = [requests EXCEPT ![i] =
                   IF send = NoFailure
                   THEN Request(@.type, "sending", @.responses, NoFailure)
                   ELSE Request(@.type, "done",
                                Append(@.responses, FailureResponse(send)), send)]
            /\ extensionActive' = ActiveAfter(extensionActive, send)
    /\ UNCHANGED <<port, listener, loadPass>>
    /\ UNCHANGED <<docVars, passVars, observers, pc, scriptMap, scripts, checks,
                   fetched, outcomes, snapshot, verVars, bgVars, report>>

\* the callback gone wrong: a send that succeeded is not answered
SendCallbackSilentOnSuccess(i, lastError) ==
    /\ i \in 1..Len(requests)
    /\ requests[i].stage = "sending"
    /\ lastError \in LastErrors \cup {NoFailure}
    /\ requests' = [requests EXCEPT ![i] =
           IF lastError = NoFailure
           THEN Request(@.type, "done", @.responses, NoFailure)
           ELSE Request(@.type, "done",
                        Append(@.responses, FailureResponse(lastError)), lastError)]
    /\ extensionActive' = ActiveAfter(extensionActive, lastError)
    /\ UNCHANGED <<port, listener, loadPass, sends>>
    /\ UNCHANGED <<docVars, passVars, observers, pc, scriptMap, scripts, checks,
                   fetched, outcomes, snapshot, verVars, bgVars, report>>

\* the callback the listener gave to chrome.runtime.sendMessage
SendCallback(i, lastError) ==
    /\ i \in 1..Len(requests)
    /\ requests[i].stage = "sending"
    /\ lastError \in LastErrors \cup {NoFailure}
    /\ requests' = [requests EXCEPT ![i] =
           IF lastError = NoFailure
           THEN Request(@.type, "done", Append(@.responses, Succeeded), NoFailure)
           ELSE Request(@.type, "done",
                        Append(@.responses, FailureResponse(lastError)), lastError)]
    /\ extensionActive' = ActiveAfter(extensionActive, lastError)
    /\ UNCHANGED <<port, listener, loadPass, sends>>
    /\ UNCHANGED <<docVars, passVars, observers, pc, scriptMap, scripts, checks,
                   fetched, outcomes, snapshot, verVars, bgVars, report>>

\* the state once the script has run to its end: chrome.runtime.connect threw;
\* or it did not and the listener is registered; or it did not and
\* onMessage.addListener threw, an Error of a lost context or another
ContentLoaded ==
    \/ extensionActive = FALSE /\ port = "none" /\ listener = FALSE
    \/ extensionActive = TRUE /\ port = "connected" /\ listener = TRUE
    \/ extensionActive \in BOOLEAN /\ port = "connected" /\ listener = FALSE

\* a page with one same-origin script, whose check fetches it, and a window
\* that has no probed global or one whose getter throws
ContentInit ==
    /\ perfEntries = <<[name |-> AppJs, initiatorType |-> "script", transferSize |-> 1,
                        decodedBodySize |-> 0, encodedBodySize |-> 0]>>
    /\ scriptTags = <<>>
    /\ inlineScripts = <<>>
    /\ win \in {EmptyWindow, Window({}, [g \in {"jQuery"} |-> ThrowingGlobal])}
    /\ cspMeta = [httpEquiv |-> FALSE, nameCsp |-> FALSE]
    /\ perfApi \in {"absent", "rejects", "ok"}
    /\ Fresh
    /\ ContentLoaded
    /\ loadPass = [stage |-> "timer"]
    /\ requests = <<>>
    /\ sends = <<>>
    /\ BackgroundIdle
    /\ PopupIdle
    /\ dependency = NoDependency
    /\ advisory = -1

ContentNext ==
    \/ PortDisconnects
    \/ \E message \in ErrorMessages \cup {NoMessage} : ErrorEvent(message)
    \/ \E thrown \in ThrownValues : TimerFires(thrown)
    \/ \E send \in SendOutcomes : LoadAnalysisResolves(send)
    \/ \E lastError \in LastErrors \cup {NoFailure} : LoadSendCallback(lastError)
    \/ \E type \in MessageTypes, thrown \in ThrownValues : RequestArrives(type, thrown)
    \/ \E i \in 1..MaxRequests, send \in SendOutcomes : AnalysisResolves(i, send)
    \/ \E i \in 1..MaxRequests, lastError \in LastErrors \cup {NoFailure} :
           SendCallback(i, lastError)

ContentSpec == ContentInit /\ [][ContentNext]_vars

(***************************************************************************)
(* The background (src/background.ts): the in-memory analysisCache,        *)
(* chrome.storage.local, and the handlers of PAGE_ANALYSIS and             *)
(* GET_ANALYSIS with saveHistory.  Storage operations complete in the      *)
(* order they were issued; an operation reads or writes the store when it  *)
(* completes, and its callback runs then.  Time is counted in days.        *)
(***************************************************************************)
\* 30 * 24 * 60 * 60 * 1000 milliseconds
RetentionDays == 30

BgUrls == {PageA, PageB}

getDomainFromUrl(url) == IF Parses(url) THEN Hostname(url) ELSE url

\* `history_${domain}`
HistoryKey(domain) == "history_" \o domain

\* store[key] = value
Put(store, key, value) ==
    [k \in DOMAIN store \cup {key} |-> IF k = key THEN value ELSE store[k]]

\* of a snapshot the background reads its timestamp and three of its totals
AnalysisDataAt(t, size) ==
    [timestamp |-> t, totalSize |-> size, scriptCount |-> size, thirdPartySize |-> 0]

\* no snapshot: null in a response, the unused value of a read operation
NoData == [timestamp |-> -1, totalSize |-> 0, scriptCount |-> 0, thirdPartySize |-> 0]

\* the HistoryEntry saveHistory builds from a snapshot
HistoryEntryOf(data) ==
    [timestamp |-> data.timestamp, totalSize |-> data.totalSize,
     scriptCount |-> data.scriptCount, thirdPartySize |-> data.thirdPartySize]

\* entries.filter(e => Date.now() - e.timestamp < 30 days), at time t
KeepRecent(entries, t) == SelectSeq(entries, LAMBDA e : t - e.timestamp < RetentionDays)

\* e put into a list sorted newest-first, behind the entries of its timestamp
RECURSIVE InsertNewestFirst(_, _)
InsertNewestFirst(sorted, e) ==
    IF Len(sorted) = 0 THEN <<e>>
    ELSE IF sorted[1].timestamp >= e.timestamp
         THEN <<sorted[1]>> \o InsertNewestFirst(Tail(sorted), e)
         ELSE <<e>> \o sorted

RECURSIVE SortNewestFirstFrom(_, _, _)
SortNewestFirstFrom(entries, i, sorted) ==
    IF i > Len(entries) THEN sorted
    ELSE SortNewestFirstFrom(entries, i + 1, InsertNewestFirst(sorted, entries[i]))

\* the sort left out: the entries stay in the order they were pushed
LeaveAsPushed(entries) == entries

\* entries.sort((a, b) => b.timestamp - a.timestamp)
SortNewestFirst(entries) == SortNewestFirstFrom(entries, 1, <<>>)

\* result[historyKey] || { domain, entries: [], lastUpdated: 0 }
ExistingHistory(store, domain) ==
    IF HistoryKey(domain) \in DOMAIN store THEN store[HistoryKey(domain)]
    ELSE [domain |-> domain, entries |-> <<>>, lastUpdated |-> 0]

\* the value saveHistory writes, from the one it read, at time t
UpdatedHistory(existing, data, t) ==
    [domain |-> existing.domain,
     entries |-> SortNewestFirst(KeepRecent(Append(existing.entries,
                                                   HistoryEntryOf(data)), t)),
     lastUpdated |-> t]

\* one chrome.storage.local.get or set: its key, the value a set writes, the
\* callback that runs at its completion and the message that callback serves
StorageOp(op, key, value, then, id) ==
    [op |-> op, key |-> key, value |-> value, then |-> then, id |-> id]

nonBgVars == <<docVars, passVars, observers, pc, scriptMap, scripts, checks, fetched,
               outcomes, snapshot, verVars, contentVars, report>>

\* time passes
Tick ==
    /\ now + ClockStep <= MaxClock
    /\ now' = now + ClockStep
    /\ UNCHANGED <<analysisCache, storage, storageQueue, received, answers>>
    /\ UNCHANGED nonBgVars

\* the listener is given a PAGE_ANALYSIS message
PageAnalysis(url, data) ==
    /\ Len(received) < MaxMessages
    /\ url \in BgUrls
    /\ data.timestamp <= now
    /\ analysisCache' = Put(analysisCache, url, data)
    /\ received' = Append(received, [url |-> url, data |-> data,
                                     stage |-> "storing", savedAt |-> -1])
    /\ storageQueue' = Append(storageQueue,
           StorageOp("set", url, data, "saveHistory", Len(received) + 1))
    /\ UNCHANGED <<storage, answers, now>>
    /\ UNCHANGED nonBgVars

\* the listener is given a GET_ANALYSIS message
GetAnalysis(url) ==
    /\ Len(answers) < MaxAsks
    /\ url \in BgUrls
    /\ IF url \in DOMAIN analysisCache
       THEN /\ answers' = Append(answers, [url |-> url, stage |-> "done",
                                           data |-> analysisCache[url],
                                           seen |-> Len(received)])
            /\ UNCHANGED storageQueue
       ELSE /\ answers' = Append(answers, [url |-> url, stage |-> "reading",
                                           data |-> NoData,
                                           seen |-> Len(received)])
            /\ storageQueue' = Append(storageQueue,
                   StorageOp("get", url, NoData, "answer", Len(answers) + 1))
    /\ UNCHANGED <<analysisCache, storage, received, now>>
    /\ UNCHANGED nonBgVars

\* chrome.storage.local.set({ [url]: message.data }) completes: its callback
\* calls saveHistory, which issues the read of the domain's history
UrlStored ==
    /\ Len(storageQueue) > 0
    /\ storageQueue[1].then = "saveHistory"
    /\ LET head == storageQueue[1]
       IN  /\ storage' = Put(storage, head.key, head.value)
           /\ storageQueue' = Append(Tail(storageQueue),
                  StorageOp("get", HistoryKey(getDomainFromUrl(head.key)), NoData,
                            "pushEntry", head.id))
           /\ received' = [received EXCEPT ![head.id].stage = "reading"]
    /\ UNCHANGED <<analysisCache, answers, now>>
    /\ UNCHANGED nonBgVars

\* saveHistory's read completes: the entry is pushed, the entries filtered and
\* sorted, and the write issued
HistoryRead ==
    /\ Len(storageQueue) > 0
    /\ storageQueue[1].then = "pushEntry"
    /\ LET head == storageQueue[1]
           domain == getDomainFromUrl(received[head.id].url)
           existing == ExistingHistory(storage, domain)
       IN  /\ storageQueue' = Append(Tail(storageQueue),
                  StorageOp("set", head.key,
                            UpdatedHistory(existing, received[head.id].data, now),
                            "resolve", head.id))
           /\ received' = [received EXCEPT ![head.id].stage = "writing",
                                           ![head.id].savedAt = now]
    /\ UNCHANGED <<analysisCache, storage, answers, now>>
    /\ UNCHANGED nonBgVars

\* saveHistory's write completes: its promise resolves and the PAGE_ANALYSIS
\* is answered
HistoryStored ==
    /\ Len(storageQueue) > 0
    /\ storageQueue[1].then = "resolve"
    /\ LET head == storageQueue[1]
       IN  /\ storage' = Put(storage, head.key, head.value)
           /\ storageQueue' = Tail(storageQueue)
           /\ received' = [received EXCEPT ![head.id].stage = "done"]
    /\ UNCHANGED <<analysisCache, answers, now>>
    /\ UNCHANGED nonBgVars

\* the read a GET_ANALYSIS issued completes: what was read goes into the
\* cache and into the response
AnalysisRead ==
    /\ Len(storageQueue) > 0
    /\ storageQueue[1].then = "answer"
    /\ LET head == storageQueue[1]
       IN  /\ storageQueue' = Tail(storageQueue)
           /\ IF head.key \in DOMAIN storage
              THEN /\ analysisCache' = Put(analysisCache, head.key, storage[head.key])
                   /\ answers' = [answers EXCEPT ![head.id].stage = "done",
                                                 ![head.id].data = storage[head.key]]
              ELSE /\ UNCHANGED analysisCache
                   /\ answers' = [answers EXCEPT ![head.id].stage = "done"]
    /\ UNCHANGED <<storage, received, now>>
    /\ UNCHANGED nonBgVars

\* the times of the clock
ClockTimes == {t \in 0..MaxClock : t % ClockStep = 0}

\* the snapshots a message may carry: of one script of size 1, taken at a
\* time of the clock
BgData == {AnalysisDataAt(t, 1) : t \in ClockTimes}

\* what an earlier run of the background left in storage: nothing, or the
\* snapshot of PageA taken at time 0 and the history entry made of it
PersistedStorages ==
    {<<>>,
     (PageA :> AnalysisDataAt(0, 0))
         @@ (HistoryKey("example.com") :>
                [domain |-> "example.com",
                 entries |-> <<HistoryEntryOf(AnalysisDataAt(0, 0))>>,
                 lastUpdated |-> 0])}

\* the background starts, or starts again: its cache is empty, storage holds
\* what was persisted
BgInit ==
    /\ perfEntries = <<>>
    /\ scriptTags = <<>>
    /\ inlineScripts = <<>>
    /\ PlainDocument
    /\ Fresh
    /\ ContentIdle
    /\ PopupIdle
    /\ dependency = NoDependency
    /\ advisory = -1
    /\ analysisCache = <<>>
    /\ storage \in PersistedStorages
    /\ storageQueue = <<>>
    /\ received = <<>>
    /\ answers = <<>>
    /\ now = 0

BgNext ==
    \/ Tick
    \/ \E url \in BgUrls, data \in BgData : PageAnalysis(url, data)
    \/ \E url \in BgUrls : GetAnalysis(url)
    \/ UrlStored
    \/ HistoryRead
    \/ HistoryStored
    \/ AnalysisRead

BgSpec == BgInit /\ [][BgNext]_vars

(***************************************************************************)
(* The popup (src/popup.tsx) on a snapshot: generateRecommendations and    *)
(* the summaries exportAsJSON and exportAsText compute.  A quotient of two *)
(* JavaScript numbers is NaN for 0 / 0, Infinity for a positive number     *)
(* over 0, and the ratio otherwise.                                        *)
(***************************************************************************)
\* a / b, for numbers that are not negative
JsDivide(a, b) ==
    IF b # 0 THEN [kind |-> "finite", num |-> a, den |-> b]
    ELSE IF a = 0 THEN [kind |-> "NaN", num |-> a, den |-> b]
    ELSE [kind |-> "Infinity", num |-> a, den |-> b]

\* (q * 100).toFixed(1) + "%": the kind of the number and, when it is finite,
\* its value in tenths of a percent, rounded
PercentText(q) ==
    IF q.kind = "finite"
    THEN [kind |-> "finite", tenths |-> (2000 * q.num + q.den) \div (2 * q.den)]
    ELSE [kind |-> q.kind, tenths |-> 0]

\* q > 0.4
ExceedsFourTenths(q) ==
    IF q.kind = "NaN" THEN FALSE
    ELSE IF q.kind = "Infinity" THEN TRUE
    ELSE 10 * q.num > 4 * q.den

\* of generateRecommendations, the two recommendations computed from the
\* totals, and the divisors of the divisions it evaluates
generateRecommendations(analysis) ==
    [thirdPartyHeavy |-> 2 * analysis.thirdPartySize > analysis.totalSize,
     compressionLow |->
         ExceedsFourTenths(JsDivide(analysis.totalGzippedSize, analysis.totalSize)),
     divisors |-> <<analysis.totalSize>>]

\* nothing the popup does changes anything else
nonPopupVars == <<docVars, passVars, observers, pc, scriptMap, scripts, checks, fetched,
                  outcomes, snapshot, verVars, contentVars, bgVars>>

\* the popup computes the recommendations of the snapshot it was given
Recommend ==
    /\ snapshot.built
    /\ LET rec == generateRecommendations(snapshot)
       IN  report' = [made |-> TRUE, by |-> "generateRecommendations",
                      totalSize |-> snapshot.totalSize,
                      recommendations |-> rec,
                      percentages |-> <<>>,
                      divisors |-> rec.divisors]
    /\ UNCHANGED nonPopupVars

\* exportAsJSON: the recommendations and summary.thirdPartyPercentage
ExportAsJSON ==
    /\ snapshot.built
    /\ LET rec == generateRecommendations(snapshot)
       IN  report' = [made |-> TRUE, by |-> "exportAsJSON",
                      totalSize |-> snapshot.totalSize,
                      recommendations |-> rec,
                      percentages |->
                          <<PercentText(JsDivide(snapshot.thirdPartySize,
                                                 snapshot.totalSize))>>,
                      divisors |-> rec.divisors \o <<snapshot.totalSize>>]
    /\ UNCHANGED nonPopupVars

\* exportAsText: the recommendations and the Third-Party and First-Party lines
ExportAsText ==
    /\ snapshot.built
    /\ LET rec == generateRecommendations(snapshot)
       IN  report' = [made |-> TRUE, by |-> "exportAsText",
                      totalSize |-> snapshot.totalSize,
                      recommendations |-> rec,
                      percentages |->
                          <<PercentText(JsDivide(snapshot.thirdPartySize,
                                                 snapshot.totalSize)),
                            PercentText(JsDivide(snapshot.firstPartySize,
                                                 snapshot.totalSize))>>,
                      divisors |-> rec.divisors
                                      \o <<snapshot.totalSize, snapshot.totalSize>>]
    /\ UNCHANGED nonPopupVars

\* pages with no script or with measured scripts of the document's host and
\* of a CDN
PopupInit ==
    /\ perfEntries \in SeqsUpTo(SizedEntries, MaxPopupEntries)
    /\ scriptTags = <<>>
    /\ inlineScripts = <<>>
    /\ PlainDocument
    /\ Fresh
    /\ ContentIdle
    /\ BackgroundIdle
    /\ PopupIdle
    /\ dependency = NoDependency
    /\ advisory = -1

PopupNext ==
    \/ Next
    \/ Recommend
    \/ ExportAsJSON
    \/ ExportAsText

PopupSpec == PopupInit /\ [][PopupNext]_vars

(***************************************************************************)
(* Properties.                                                             *)
(***************************************************************************)
\* the positions of seq whose element satisfies P
Where(seq, P(_)) == {i \in 1..Len(seq) : P(seq[i])}

AllZero(e) == e.transferSize = 0 /\ e.decodedBodySize = 0 /\ e.encodedBodySize = 0

\* C1: in every snapshot analyzePage returns, firstPartySize + thirdPartySize
\* is totalSize and firstPartyCount + thirdPartyCount is the number of scripts.
C1_PartitionTotals ==
    snapshot.built =>
        /\ snapshot.firstPartySize + snapshot.thirdPartySize = snapshot.totalSize
        /\ snapshot.firstPartyCount + snapshot.thirdPartyCount = Len(snapshot.scripts)

\* a snapshot with a first-party and a third-party script
C1_Witness ==
    /\ snapshot.built
    /\ snapshot.firstPartyCount >= 1
    /\ snapshot.thirdPartyCount >= 1

\* C2: no script of a snapshot has size <= 0, and a name all of whose timing
\* entries have decoded, encoded and transferred size 0 is not in the
\* inventory at all, whichever pass would have added it.
C2_PositiveSizes ==
    snapshot.built =>
        /\ \A i \in 1..Len(snapshot.scripts) : snapshot.scripts[i].size > 0
        /\ \A u \in Urls :
               (\A k \in 1..Len(perfEntries) :
                    perfEntries[k].name = u => AllZero(perfEntries[k]))
               => Where(snapshot.scripts, LAMBDA x : x.src = u) = {}

\* a snapshot with an inline script and a script the second pass added, of a
\* document that also has a timing entry of a script with all sizes 0
C2_Witness ==
    /\ snapshot.built
    /\ \E i \in 1..Len(snapshot.scripts) : snapshot.scripts[i].src = InlineSrc
    /\ \E i \in 1..Len(snapshot.scripts) :
           /\ snapshot.scripts[i].src = PortApi
           /\ MapIndex(scriptMap, PortApi) = 0
    /\ \E k \in 1..Len(perfEntries) : isScript(perfEntries[k]) /\ AllZero(perfEntries[k])

\* two timing entries of scripts, at positions i < j, that are the only
\* entries of their name and differ in transferred size
DuplicatePair(i, j) ==
    /\ i \in 1..Len(perfEntries) /\ j \in 1..Len(perfEntries) /\ i < j
    /\ perfEntries[i].name = perfEntries[j].name
    /\ isScript(perfEntries[i]) /\ isScript(perfEntries[j])
    /\ perfEntries[i].transferSize # perfEntries[j].transferSize
    /\ \A k \in 1..Len(perfEntries) :
           perfEntries[k].name = perfEntries[i].name => k \in {i, j}

\* the snapshot has exactly one script for the name of entry e, built from e
\* (hasEval, which the eval check sets later, apart)
KeptFrom(e) ==
    /\ Cardinality(Where(snapshot.scripts, LAMBDA x : x.src = e.name)) = 1
    /\ scriptMap[MapIndex(scriptMap, e.name)] = e
    /\ \E n \in 1..Len(snapshot.scripts) :
           [snapshot.scripts[n] EXCEPT !.hasEval = FALSE] = ExternalScript(e.name, e)

LargerTransfer(e1, e2) == IF e1.transferSize > e2.transferSize THEN e1 ELSE e2

\* C3 as stated: of two timing entries with the same name and different
\* transferred sizes, in either order and whatever their decoded sizes, exactly
\* one script is kept and it is built from the entry of larger transferred size.
C3_KeepsLargerTransfer ==
    snapshot.built =>
        \A i, j \in 1..Len(perfEntries) :
            DuplicatePair(i, j) =>
                KeptFrom(LargerTransfer(perfEntries[i], perfEntries[j]))

\* C3 amended: exactly one script is kept; it is built from the entry of larger
\* transferred size unless that entry comes first and the later entry has the
\* larger decoded body size, and then it is built from the later entry.
C3_KeepsLargerTransferOrDecoded ==
    snapshot.built =>
        \A i, j \in 1..Len(perfEntries) :
            DuplicatePair(i, j) =>
                LET first == perfEntries[i]
                    later == perfEntries[j]
                IN  IF /\ first.transferSize > later.transferSize
                       /\ later.decodedBodySize > first.decodedBodySize
                    THEN KeptFrom(later)
                    ELSE KeptFrom(LargerTransfer(first, later))

\* a snapshot of a document whose first entry has the larger transferred size
\* and whose second entry, of the same name, has the larger decoded size
C3_Witness ==
    /\ snapshot.built
    /\ \E i, j \in 1..Len(perfEntries) :
           /\ DuplicatePair(i, j)
           /\ perfEntries[i].transferSize > perfEntries[j].transferSize
           /\ perfEntries[j].decodedBodySize > perfEntries[i].decodedBodySize
           /\ ExternalScript(perfEntries[i].name, perfEntries[i])
                  # ExternalScript(perfEntries[j].name, perfEntries[j])

\* the inline scripts of the document whose text matches an eval pattern
MatchingInline == Where(inlineScripts, LAMBDA t : t.length > 0 /\ t.evalHit)

\* C4: every inline script whose text matches an eval pattern is in the
\* snapshot with hasEval true and has its own high-severity eval_usage finding,
\* however the eval checks of the pass ended.
C4_InlineEvalFlagged ==
    snapshot.built =>
        /\ Cardinality(Where(snapshot.scripts,
                             LAMBDA x : x.src = InlineSrc /\ x.hasEval))
               = Cardinality(MatchingInline)
        /\ Cardinality(Where(snapshot.securityIssues,
                             LAMBDA x : /\ x.type = "eval_usage"
                                        /\ x.severity = "high"
                                        /\ x.script = InlineSrc))
               = Cardinality(MatchingInline)

\* the scripts and findings of a snapshot never change once it is built
SnapshotFrozen == snapshot.built => snapshot' = snapshot /\ scripts' = scripts

\* C5: the snapshot is built, and detectSecurityIssues run, only when every
\* eval check has settled, and afterwards no hasEval flag and no finding changes.
C5_JoinBeforeScan ==
    /\ [](snapshot.built => \A i \in 1..Len(checks) : checks[i].stage \in {"none", "done"})
    /\ [][SnapshotFrozen]_vars

\* a snapshot built after two fetches of the same pass have settled
C5_Witness ==
    /\ snapshot.built
    /\ \E i, j \in 1..Len(outcomes) :
           i # j /\ outcomes[i].fetch # "" /\ outcomes[j].fetch # ""

\* C6: in a snapshot a script is flagged exactly when its own fetch succeeded
\* and its own body matched; so a script whose fetch was rejected or not OK is
\* not flagged and the other scripts keep their own results.  And a pass under
\* way that can take no further step has returned its snapshot, whatever failed.
C6_FailureIsolated ==
    /\ snapshot.built =>
           \A i \in 1..Len(snapshot.scripts) :
               snapshot.scripts[i].hasEval
                   <=> (outcomes[i].fetch = "ok" /\ outcomes[i].text = "hit")
    /\ (pc # "idle" /\ ~snapshot.built) => ENABLED Next

\* a snapshot where one check's fetch failed and another script is flagged
C6_Witness ==
    /\ snapshot.built
    /\ \E i, j \in 1..Len(snapshot.scripts) :
           /\ i # j
           /\ outcomes[i].fetch \in {"reject", "notOk"}
           /\ ~snapshot.scripts[i].hasEval
           /\ outcomes[j].text = "hit"
           /\ snapshot.scripts[j].hasEval

CrossOrigin(src) == src # InlineSrc /\ Origin(src) # LocationOrigin

\* C7: no fetch is issued for an external script of another origin than the
\* document's, and such a script is never flagged in a snapshot.
C7_NoCrossOriginFetch ==
    /\ \A u \in fetched : ~CrossOrigin(u)
    /\ \A i \in 1..Len(checks) :
           CrossOrigin(scripts[i].src) => checks[i].stage \notin {"fetch", "text"}
    /\ snapshot.built =>
           \A i \in 1..Len(snapshot.scripts) :
               CrossOrigin(snapshot.scripts[i].src) => ~snapshot.scripts[i].hasEval

\* a snapshot with a script of the document's host but another origin, of a
\* pass that did fetch something
C7_Witness ==
    /\ snapshot.built
    /\ fetched # {}
    /\ \E i \in 1..Len(snapshot.scripts) :
           /\ snapshot.scripts[i].src = PortApi
           /\ snapshot.scripts[i].firstParty

(***************************************************************************)
(* Properties of the version advisory, stated without the code's loops.    *)
(***************************************************************************)
\* the text before the first hyphen, without the blanks around it
BeforeHyphen(v) ==
    LET hyphens == {i \in 1..Len(v) : v[i] = "-"}
    IN  IF hyphens = {} THEN v
        ELSE SubSeq(v, 1, (CHOOSE i \in hyphens : \A k \in hyphens : i <= k) - 1)

WithoutBlanksAround(v) ==
    LET solid == {i \in 1..Len(v) : v[i] # " "}
    IN  IF solid = {} THEN <<>>
        ELSE SubSeq(v, CHOOSE i \in solid : \A k \in solid : i <= k,
                       CHOOSE i \in solid : \A k \in solid : i >= k)

NormalizedVersion(v) == WithoutBlanksAround(BeforeHyphen(v))

\* the i-th of the numeric components p, 0 when there are fewer
Component(p, i) == IF i <= Len(p) THEN p[i] ELSE 0

\* components p are ordinally <= components q: equal throughout, or smaller
\* in the first place where they differ
OrdinalLeq(p, q) ==
    LET n == Max(Len(p), Len(q))
    IN  \/ \A i \in 1..n : Component(p, i) = Component(q, i)
        \/ \E k \in 1..n :
               /\ Component(p, k) < Component(q, k)
               /\ \A i \in 1..(k - 1) : Component(p, i) = Component(q, i)

HasVersion(d) == d.version # Null /\ d.version # <<>>

RuleNamed(r, name) == ToLowerCase(vulnerableVersions[r].library) = ToLowerCase(name)

\* the numeric components of the versions each rule lists
ListedParts ==
    [r \in 1..Len(vulnerableVersions) |->
        [j \in 1..Len(vulnerableVersions[r].versions) |->
            VersionParts(vulnerableVersions[r].versions[j])]]

\* the components of the highest version each rule lists
HighestListed ==
    [r \in 1..Len(vulnerableVersions) |->
        LET j == CHOOSE j \in 1..Len(ListedParts[r]) :
                     \A k \in 1..Len(ListedParts[r]) :
                         OrdinalLeq(ListedParts[r][k], ListedParts[r][j])
        IN  ListedParts[r][j]]

\* rule r lists a version that the normalized version v equals, extends by a
\* dot, or is ordinally <=
RuleCovers(r, v) ==
    LET p == VersionParts(v)
    IN  \E j \in 1..Len(vulnerableVersions[r].versions) :
            \/ v = vulnerableVersions[r].versions[j]
            \/ StartsWith(v, vulnerableVersions[r].versions[j] \o <<".">>)
            \/ OrdinalLeq(p, ListedParts[r][j])

\* v is ordinally <= the highest version rule r lists
UpToHighestListed(r, v) == OrdinalLeq(VersionParts(v), HighestListed[r])

\* C8: isVersionVulnerable returns a rule exactly when the dependency has a
\* version and a rule of its name, ignoring case, lists a version that the
\* normalized version equals, extends by a dot or is ordinally <= ; the rule
\* returned is one of that name; and every version ordinally <= the highest
\* listed version of a rule of its name is flagged.
C8_AdvisoryCharacterized ==
    advisory # -1 =>
        LET v == NormalizedVersion(dependency.version)
            rules == 1..Len(vulnerableVersions)
        IN  /\ advisory # 0
                <=> /\ HasVersion(dependency)
                    /\ \E r \in rules : RuleNamed(r, dependency.name) /\ RuleCovers(r, v)
            /\ advisory # 0
                => RuleNamed(advisory, dependency.name) /\ RuleCovers(advisory, v)
            /\ \A r \in rules :
                   /\ HasVersion(dependency)
                   /\ RuleNamed(r, dependency.name)
                   /\ UpToHighestListed(r, v)
                   => advisory # 0

\* a dependency named in another case than its rule, with a version of two
\* components equal in order to a listed one of three, has been flagged
C8_Witness ==
    /\ advisory = 1
    /\ dependency = [name |-> "JQUERY", version |-> <<"3", ".", "4">>]

JQueryRule == 1

\* C9: against the jQuery rule, listed up to 3.4.0 with severity high, 3.4.0
\* and 2.0.0 are reported vulnerable and 3.5.0 is not.
C9_JQueryBoundary ==
    (advisory # -1 /\ dependency.name = "jQuery") =>
        /\ vulnerableVersions[JQueryRule].library = "jQuery"
        /\ vulnerableVersions[JQueryRule].severity = "high"
        /\ dependency.version = V3(3, 4, 0) => advisory = JQueryRule
        /\ dependency.version = V3(2, 0, 0) => advisory = JQueryRule
        /\ dependency.version = V3(3, 5, 0) => advisory = 0

\* jQuery 3.5.0 has been checked and not flagged
C9_Witness ==
    /\ advisory = 0
    /\ dependency = [name |-> "jQuery", version |-> V3(3, 5, 0)]

\* C10: against the jQuery rule, detected version 3.4.1 is reported vulnerable.
C10_JQuery341Flagged ==
    (/\ advisory # -1
     /\ dependency = [name |-> "jQuery", version |-> V3(3, 4, 1)])
        => advisory = JQueryRule

(***************************************************************************)
(* Properties of the dependency detectors and of the findings.             *)
(***************************************************************************)
\* the dependencies the pass detected, libraries first
Dependencies == libraries \o frameworks

VulnerableFindings(issues) == SelectSeq(issues, LAMBDA x : x.type = "vulnerable_version")

\* the window whose only global is jQuery, of version 3.4.0
OnlyJQuery340 == Window({}, [g \in {"jQuery"} |-> ObjectGlobal(V3(3, 4, 0))])

\* C11: in every snapshot, a detected dependency that the version advisory
\* matches has exactly one vulnerable_version finding, with the severity of the
\* matched rule and the dependency's name and version, a dependency that is not
\* matched or has no version has none, and there are no other such findings;
\* and when jQuery 3.4.0 is the only detected dependency the libraries are
\* {jQuery, 3.4.0} alone and there is exactly one such finding, of severity high.
C11_OneFindingPerMatch ==
    snapshot.built =>
        LET findings == VulnerableFindings(snapshot.securityIssues)
        IN  /\ \A i \in 1..Len(Dependencies) :
                   LET d == Dependencies[i]
                       rule == isVersionVulnerable(d, vulnerableVersions)
                       own == Where(findings, LAMBDA x : x.library = d.name)
                   IN  IF HasVersion(d) /\ rule # 0
                       THEN /\ Cardinality(own) = 1
                            /\ \A k \in own :
                                   /\ findings[k].severity = vulnerableVersions[rule].severity
                                   /\ findings[k].version = d.version
                       ELSE own = {}
            /\ \A k \in 1..Len(findings) :
                   \E i \in 1..Len(Dependencies) : Dependencies[i].name = findings[k].library
            /\ win = OnlyJQuery340 =>
                   /\ snapshot.libraries
                          = <<[name |-> "jQuery", version |-> V3(3, 4, 0), detected |-> TRUE]>>
                   /\ snapshot.frameworks = <<>>
                   /\ Len(findings) = 1
                   /\ findings[1].severity = "high"

\* a snapshot with two matched dependencies, a library and a framework, whose
\* rules differ in severity, and a detected dependency that is not matched
C11_Witness ==
    /\ snapshot.built
    /\ \E i, j \in 1..Len(VulnerableFindings(snapshot.securityIssues)) :
           /\ VulnerableFindings(snapshot.securityIssues)[i].severity = "high"
           /\ VulnerableFindings(snapshot.securityIssues)[j].severity = "medium"
    /\ \E i \in 1..Len(Dependencies) :
           isVersionVulnerable(Dependencies[i], vulnerableVersions) = 0

\* reading a global of the window throws, or reading its version does
GlobalThrows(g) ==
    \/ ReadGlobal(win, g).kind = "throws"
    \/ ReadGlobal(win, g).kind = "object" /\ ReadGlobal(win, g).version = ThrowsOnRead

\* the names of the library detectors that hold and give a version, each
\* detector taken on its own
HoldingLibraries ==
    {libraryDetectors[k].name :
        k \in {n \in 1..Len(libraryDetectors) :
                  /\ DetectorHolds(win, libraryDetectors[n]) = "yes"
                  /\ ExtractVersion(win, libraryDetectors[n]) # ThrowsOnRead}}

\* C12: when a global a library detector reads throws (and no framework
\* detector does), the pass does not fail, and the libraries it detected are
\* those of the detectors that did not throw.
C12_DetectorFailureIsolated ==
    (/\ pc # "idle"
     /\ \E g \in LibraryGlobals : GlobalThrows(g)
     /\ \A g \in FrameworkGlobals : ~GlobalThrows(g))
        => /\ pc # "failed"
           /\ {libraries[i].name : i \in 1..Len(libraries)} = HoldingLibraries

\* C13: the libraries a pass detected never hold both Lodash and Underscore.
C13_NoDoubleAttribution ==
    pc \in {"checking", "done"} =>
        ~ /\ \E i \in 1..Len(libraries) : libraries[i].name = "Lodash"
          /\ \E i \in 1..Len(libraries) : libraries[i].name = "Underscore"

\* the names of the library catalog in ascending order
NamesAscending == <<"Axios", "Backbone", "D3", "Ember", "jQuery", "Knockout",
                    "Lodash", "Moment.js", "Three.js", "Underscore">>

NamesOf(list) == [i \in 1..Len(list) |-> list[i].name]

\* the names of the detectors of a table that hold
HoldingNames(table) ==
    {table[k].name : k \in {n \in 1..Len(table) : DetectorHolds(win, table[n]) = "yes"}}

\* C14: the libraries of a snapshot are at most 5, ascending by name, and are
\* the first 5 of all detected libraries in ascending order of name; the
\* frameworks of a snapshot are all the detected frameworks.
C14_LibrariesSortedCapped ==
    snapshot.built =>
        LET sortedDetected ==
                SelectSeq(NamesAscending, LAMBDA n : n \in HoldingNames(libraryDetectors))
        IN  /\ Len(snapshot.libraries) <= 5
            /\ \A i, j \in 1..Len(snapshot.libraries) :
                   i < j => \E a, b \in 1..Len(NamesAscending) :
                                /\ a < b
                                /\ NamesAscending[a] = snapshot.libraries[i].name
                                /\ NamesAscending[b] = snapshot.libraries[j].name
            /\ NamesOf(snapshot.libraries)
                   = SubSeq(sortedDetected, 1, IF Len(sortedDetected) < 5
                                               THEN Len(sortedDetected) ELSE 5)
            /\ {snapshot.frameworks[i].name : i \in 1..Len(snapshot.frameworks)}
                   = HoldingNames(frameworkDetectors)
            /\ Len(snapshot.frameworks) = Cardinality(HoldingNames(frameworkDetectors))

\* a snapshot of a window with every library and every framework: five
\* libraries, the fifth being jQuery, and six frameworks
C14_Witness ==
    /\ snapshot.built
    /\ Cardinality(HoldingNames(libraryDetectors)) > 5
    /\ Len(snapshot.libraries) = 5
    /\ snapshot.libraries[5].name = "jQuery"
    /\ Len(snapshot.frameworks) = 6

CspFindings(issues) == SelectSeq(issues, LAMBDA x : x.type = "csp_violation")

\* C17: a snapshot of a document with neither CSP meta element has exactly one
\* csp_violation finding, of severity low, whatever other findings it has; a
\* snapshot of a document with either element has none.
C17_MissingCspFinding ==
    snapshot.built =>
        IF ~cspMeta.httpEquiv /\ ~cspMeta.nameCsp
        THEN /\ Len(CspFindings(snapshot.securityIssues)) = 1
             /\ CspFindings(snapshot.securityIssues)[1].severity = "low"
        ELSE CspFindings(snapshot.securityIssues) = <<>>

\* a snapshot of a document with neither element that has findings of two
\* other kinds as well
C17_Witness ==
    /\ snapshot.built
    /\ ~cspMeta.httpEquiv /\ ~cspMeta.nameCsp
    /\ Len(CspFindings(snapshot.securityIssues)) = 1
    /\ \A t \in {"untrusted_domain", "vulnerable_version"} :
           \E k \in 1..Len(snapshot.securityIssues) : snapshot.securityIssues[k].type = t

Contains(h, t) ==
    \E i \in 1..Len(h) : \E j \in i..Len(h) : SubSeq(h, i, j) = t

\* C16: of the resources of a snapshot, a first-party one is never flagged
\* untrusted-domain, a third-party one with an empty host always is, and a
\* third-party one with a non-empty host is exactly when its host contains
\* none of the trusted-domain entries.
C16_UntrustedDomainRule ==
    snapshot.built =>
        \A i \in 1..Len(snapshot.scripts) :
            LET x == snapshot.scripts[i]
            IN  IF x.firstParty THEN ~x.untrustedDomain
                ELSE IF x.host = "" THEN x.untrustedDomain
                ELSE x.untrustedDomain
                         <=> ~(\E k \in 1..Len(trustedDomains) :
                                   Contains(x.host, trustedDomains[k]))

\* a snapshot with a flagged third-party resource and a third-party resource
\* that is not flagged because its host contains a trusted entry in its middle
C16_Witness ==
    /\ snapshot.built
    /\ \E i, j \in 1..Len(snapshot.scripts) :
           /\ snapshot.scripts[i].src = EvilJs
           /\ snapshot.scripts[i].untrustedDomain
           /\ snapshot.scripts[j].src = LookalikeJs
           /\ ~snapshot.scripts[j].firstParty
           /\ ~snapshot.scripts[j].untrustedDomain

\* the document of the scenario: on example.com, the two scripts app.js
\* (50000 bytes decoded, 20000 transferred) and cdn.jsdelivr.net/lib.js (3000
\* decoded, 1200 transferred), in either order, and no other resource
TwoScriptDocument ==
    /\ LocationHostname = "example.com"
    /\ Len(perfEntries) = 2
    /\ \E i, j \in 1..2 :
           /\ perfEntries[i].name = AppJs
           /\ perfEntries[i].decodedBodySize = 50000
           /\ perfEntries[i].transferSize = 20000
           /\ perfEntries[j].name = LibJs
           /\ perfEntries[j].decodedBodySize = 3000
           /\ perfEntries[j].transferSize = 1200

\* C18: the snapshot of that document has totalSize 53000, firstPartySize
\* 50000, thirdPartySize 3000, cdnSize 3000, cdnCount 1, firstPartyCount 1 and
\* thirdPartyCount 1.
C18_TwoScriptTotals ==
    (snapshot.built /\ TwoScriptDocument) =>
        /\ snapshot.totalSize = 53000
        /\ snapshot.firstPartySize = 50000
        /\ snapshot.thirdPartySize = 3000
        /\ snapshot.cdnSize = 3000
        /\ snapshot.cdnCount = 1
        /\ snapshot.firstPartyCount = 1
        /\ snapshot.thirdPartyCount = 1

\* the snapshot of that document, app.js being declared by a script tag too
C18_Witness ==
    /\ snapshot.built
    /\ TwoScriptDocument
    /\ scriptTags = <<AppJs>>

\* once a snapshot is built its performance record stays as it is
PerformanceKept ==
    snapshot.built => snapshot'.built /\ snapshot'.performance = snapshot.performance

\* C19: the performance record of a snapshot analyzePage has constructed never
\* changes, whatever long-task entries the observer is delivered afterwards.
C19_PerformanceFrozen == [][PerformanceKept]_vars

\* C20: no two scripts of a snapshot that are not inline have the same
\* source URL, whatever the script tags and timing entries of the document.
C20_NoRepeatedSource ==
    snapshot.built =>
        \A i, j \in 1..Len(snapshot.scripts) :
            (/\ i # j
             /\ snapshot.scripts[i].src # InlineSrc
             /\ snapshot.scripts[j].src # InlineSrc)
                => snapshot.scripts[i].src # snapshot.scripts[j].src

(***************************************************************************)
(* The findings of a snapshot against its own dependency lists.            *)
(***************************************************************************)
\* the names a snapshot lists: its frameworks and its capped libraries
ListedNames == Range(NamesOf(snapshot.frameworks)) \cup Range(NamesOf(snapshot.libraries))

\* C28 as stated: in every snapshot each vulnerable_version finding names a
\* dependency of the snapshot's frameworks list or of its capped libraries list.
C28_FindingsNameListed ==
    snapshot.built =>
        \A k \in 1..Len(VulnerableFindings(snapshot.securityIssues)) :
            VulnerableFindings(snapshot.securityIssues)[k].library \in ListedNames

\* C28 amended: in every snapshot each vulnerable_version finding names a
\* dependency of the snapshot's frameworks list or of the sorted list of
\* detected libraries whose first five the snapshot keeps; a finding that names
\* none the snapshot lists names a library sorted after the fifth.
C28_FindingsNameDetected ==
    snapshot.built =>
        /\ snapshot.libraries = SubSeq(libraries, 1, Len(snapshot.libraries))
        /\ Len(snapshot.libraries) = IF Len(libraries) < 5 THEN Len(libraries) ELSE 5
        /\ \A k \in 1..Len(VulnerableFindings(snapshot.securityIssues)) :
               LET name == VulnerableFindings(snapshot.securityIssues)[k].library
               IN  \/ name \in ListedNames
                   \/ \E i \in 6..Len(libraries) : libraries[i].name = name

\* a snapshot with a finding for a library it lists and a finding for a
\* library the cap dropped
C28_Witness ==
    /\ snapshot.built
    /\ \E j, k \in 1..Len(VulnerableFindings(snapshot.securityIssues)) :
           /\ VulnerableFindings(snapshot.securityIssues)[j].library \in ListedNames
           /\ VulnerableFindings(snapshot.securityIssues)[k].library \notin ListedNames

(***************************************************************************)
(* Properties of the pass as its callers see it.                           *)
(***************************************************************************)
\* C22: a pass that has begun and has not returned its snapshot is waiting
\* for a check of its own that has not settled, or can take its last step:
\* nothing but an unsettled fetch keeps analyzePage from returning a snapshot.
C22_OnlyFetchesBlock ==
    (pc # "idle" /\ ~snapshot.built) =>
        \/ \E i \in 1..Len(checks) : checks[i].stage # "done"
        \/ ENABLED AnalyzeFinish

\* C23: however many passes the page-load timer and the REQUEST_ANALYSIS
\* messages start, at most one long-task observer is ever registered.
C23_ObserverRegisteredOnce == observers <= 1

(***************************************************************************)
(* Properties of the content script's listener and of extensionActive.     *)
(***************************************************************************)
\* the i-th message is a request whose failure is handled in this step
FailureHandledNow(i) ==
    /\ i \in 1..Len(requests')
    /\ requests'[i].failure # NoFailure
    /\ i <= Len(requests) => requests[i].failure = NoFailure

C29_FlagMonotoneSendsGuarded ==
    [][/\ extensionActive' => extensionActive
       /\ \A k \in 1..Len(sends') : sends'[k].active]_vars

\* the flag went false while a request was being analysed, after the
\* page-load pass had sent its message, and the request was answered unsent
C29_Witness ==
    /\ ~extensionActive
    /\ port = "disconnected"
    /\ \E k \in 1..Len(sends) : sends[k].by = 0
    /\ \E i \in 1..Len(requests) :
           /\ requests[i].stage = "done"
           /\ requests[i].type = "REQUEST_ANALYSIS"
           /\ requests[i].failure = NoFailure
           /\ requests[i].responses = <<ContextGone>>
           /\ \A k \in 1..Len(sends) : sends[k].by # i

\* C30: sendResponse has been invoked exactly once for every REQUEST_ANALYSIS
\* whose handling has come to its end, and not at all before that.
C30_OneResponsePerRequest ==
    \A i \in 1..Len(requests) :
        requests[i].type = "REQUEST_ANALYSIS" =>
            Len(requests[i].responses) = IF requests[i].stage = "done" THEN 1 ELSE 0

\* two requests at their end: one whose send succeeded, one whose analysis
\* failed
C30_Witness ==
    /\ Len(requests) = 2
    /\ \E i, j \in 1..2 :
           /\ requests[i].stage = "done" /\ requests[i].responses = <<Succeeded>>
           /\ requests[j].stage = "done" /\ requests[j].failure.source = "lastError"

(***************************************************************************)
(* Properties of the background's history and cache.                       *)
(***************************************************************************)
\* the entries stored for the domain of a url
StoredEntries(store, url) == ExistingHistory(store, getDomainFromUrl(url)).entries

\* the saveHistory of the k-th PAGE_ANALYSIS completes in this step
SaveCompletesNow(k) ==
    /\ k \in 1..Len(received)
    /\ received[k].stage = "writing"
    /\ received'[k].stage = "done"

\* C24: when a saveHistory completes, the entries stored for its domain are in
\* descending order of timestamp and none of them has a timestamp 30 days or
\* more before the time of that save.
C24_HistorySortedRecent ==
    [][\A k \in 1..MaxMessages :
           SaveCompletesNow(k) =>
               LET h == StoredEntries(storage', received[k].url)
               IN  /\ \A i \in 1..(Len(h) - 1) : h[i].timestamp >= h[i + 1].timestamp
                   /\ \A i \in 1..Len(h) :
                          received[k].savedAt - h[i].timestamp < 30]_vars

\* after two saves, the second of an entry newer than the first one's: the
\* stored entries are those two, newest first, and the persisted entry of day 0
\* has been dropped
C24_Witness ==
    /\ PageA \in DOMAIN storage
    /\ storage[PageA] = AnalysisDataAt(0, 0)
    /\ Len(received) = 2
    /\ received[1].stage = "done" /\ received[2].stage = "done"
    /\ received[1].data.timestamp < received[2].data.timestamp
    /\ LET h == StoredEntries(storage, PageB)
       IN  /\ Len(h) = 2
           /\ h[1] = HistoryEntryOf(received[2].data)
           /\ h[2] = HistoryEntryOf(received[1].data)

\* the most recent PAGE_ANALYSIS for url among the first n received
MessagesFor(url, n) == {k \in 1..n : received[k].url = url}

LatestFor(url, n) ==
    received[CHOOSE k \in MessagesFor(url, n) :
                 \A m \in MessagesFor(url, n) : m <= k].data

\* C26: a GET_ANALYSIS for a url that arrived after a PAGE_ANALYSIS for it is
\* answered with the snapshot of the most recent such message, and the cache
\* holds, for every url a PAGE_ANALYSIS was received for, the snapshot of the
\* most recent one: a read of storage that completes late overwrites nothing
\* newer.
C26_LatestSnapshotServed ==
    /\ \A j \in 1..Len(answers) :
           (answers[j].stage = "done" /\ MessagesFor(answers[j].url, answers[j].seen) # {})
               => answers[j].data = LatestFor(answers[j].url, answers[j].seen)
    /\ \A url \in BgUrls :
           MessagesFor(url, Len(received)) # {}
               => /\ url \in DOMAIN analysisCache
                  /\ analysisCache[url] = LatestFor(url, Len(received))

\* nothing is pending in the background
Quiescent ==
    /\ storageQueue = <<>>
    /\ \A k \in 1..Len(received) : received[k].stage = "done"

\* the time of the last save
LastSave == CHOOSE t \in {received[k].savedAt : k \in 1..Len(received)} :
                \A k \in 1..Len(received) : received[k].savedAt <= t

\* C27: once nothing is pending, the entries stored for a domain hold, for
\* every PAGE_ANALYSIS received whose snapshot is less than 30 days old at the
\* last save, exactly as many copies of its entry as messages carried it.
C27_NoEntryLost ==
    Quiescent =>
        \A k \in 1..Len(received) :
            LET e == HistoryEntryOf(received[k].data)
                h == StoredEntries(storage, received[k].url)
            IN  LastSave - e.timestamp < 30 =>
                    Cardinality({i \in 1..Len(h) : h[i] = e})
                        = Cardinality({m \in 1..Len(received) :
                                          HistoryEntryOf(received[m].data) = e})

(***************************************************************************)
(* Properties of the popup's computations.                                 *)
(***************************************************************************)
\* C25: whatever the popup computed from a snapshot whose total size is 0, it
\* divided by no zero total: no divisor of its divisions is 0 and every
\* percentage it shows is a finite number.
C25_ZeroTotalGuarded ==
    (report.made /\ report.totalSize = 0) =>
        /\ \A i \in 1..Len(report.divisors) : report.divisors[i] # 0
        /\ \A i \in 1..Len(report.percentages) : report.percentages[i].kind = "finite"

====
